---- MODULE Spec2Model ----
(***************************************************************************)
(* Model of the contact-cleaning scripts of the fundraiser repository:     *)
(*   clean_duplicates_on_contacts.py  (normalize_phone, sliding windows,   *)
(*       extract_phone_candidates, the two record selectors, main loop)    *)
(*   clean_google_contacts.py         (normalize_phone, pick_best_number,  *)
(*       main loop)                                                        *)
(*   fix_long_numbers.py              (pick_window, country_of, de-dupe)   *)
(*                                                                         *)
(* A Python str is a sequence of one-character strings, so that slicing,   *)
(* strip(), isdigit() and the regular expressions are computed character   *)
(* by character as the interpreter does.  Python's None is the value None. *)
(***************************************************************************)
EXTENDS Integers, Sequences, FiniteSets, TLC

VARIABLES
    ADD_MX_MOBILE_ONE,  \* module setting of both cleaning scripts
    text,               \* argument of the function under call
    call,               \* name of the function applied to text ("" before the call)
    ret,                \* value the call returned
    again,              \* value of normalizing ret once more (Unset before that)
    contact,            \* one contact row handed to a record selector
    picked,             \* what the selector returned for contact
    script,             \* which script's main is running
    simple_schema,      \* clean_duplicates_on_contacts: "Phone" in rows[0]
    rows,               \* rows read from the input file
    kept,               \* fix_long_numbers: rows list built by the read loop
    i,                  \* number of rows the current loop has consumed
    out_rows,           \* output rows accumulated so far
    seen,               \* set of phones already emitted
    pc,                 \* position of main (of ask_openai when script = "ask_openai")
    max_retries,        \* ask_openai: its parameter
    models_left,        \* ask_openai: the models "for model in models_to_try" has yet to give
    attempt,            \* ask_openai: loop variable of "for attempt in range(...)"
    last_err,           \* ask_openai: last exception caught (<<its class>>) or None
    backoff,            \* ask_openai: seconds of the last sleep computed, as the fraction
                        \* <<numerator, denominator>>; <<>> while not assigned
    calls,              \* ask_openai: the client.responses.create calls made, with outcomes
    result,             \* ask_openai: how it ended, <<"return", text>> or <<"raise", error>>
    args,               \* send_messages: the parsed command line
    start,              \* send_messages: first row index of the run
    end,                \* send_messages: row index the run stops before
    idx,                \* send_messages: loop variable of "for idx in range(start, end)"
    sent,               \* send_messages: counter printed as "Sent (no exception)"
    stdout_encoding,    \* send_messages: encoding of sys.stdout
    created,            \* send_messages: the client.messages.create calls made
    sent_log,           \* send_messages: rows appended to SENT_LOG
    error_log,          \* send_messages: rows appended to ERROR_LOG
    printed             \* send_messages: lines printed to stdout and stderr

ask_vars == <<max_retries, models_left, attempt, last_err, backoff, calls, result>>
send_vars == <<args, start, end, idx, sent, stdout_encoding, created, sent_log, error_log, printed>>

vars == <<ADD_MX_MOBILE_ONE, text, call, ret, again, contact, picked,
          script, simple_schema, rows, kept, i, out_rows, seen, pc, ask_vars, send_vars>>

----------------------------------------------------------------------------
(* Python values and str primitives *)

None == <<"<None>">>
Unset == <<"<unset>">>
AttributeError == <<"<AttributeError>">>

US == <<"U", "S">>
MX == <<"M", "X">>
INTL == <<"I", "N", "T", "L">>

\* the characters of the model: the code points U+0001 .. U+00FF in code-point order,
\* each a one-character string (U+0060 is written "U+0060"); a character past U+00FF
\* is written by its code point as well ("U+0178")
Latin1 ==
    <<
      "", "", "", "", "", "", "", "",
      "\t", "\n", "", "\f", "\r", "", "", "",
      "", "", "", "", "", "", "", "",
      "", "", "", "", "", "", "", " ",
      "!", "\"", "#", "$", "%", "&", "'", "(",
      ")", "*", "+", ",", "-", ".", "/", "0",
      "1", "2", "3", "4", "5", "6", "7", "8",
      "9", ":", ";", "<", "=", ">", "?", "@",
      "A", "B", "C", "D", "E", "F", "G", "H",
      "I", "J", "K", "L", "M", "N", "O", "P",
      "Q", "R", "S", "T", "U", "V", "W", "X",
      "Y", "Z", "[", "\\", "]", "^", "_", "U+0060",
      "a", "b", "c", "d", "e", "f", "g", "h",
      "i", "j", "k", "l", "m", "n", "o", "p",
      "q", "r", "s", "t", "u", "v", "w", "x",
      "y", "z", "{", "|", "}", "~", "", "",
      "", "", "", "", "", "", "", "",
      "", "", "", "", "", "", "", "",
      "", "", "", "", "", "", "", "",
      "", "", "", "", "", "", "", " ",
      "¡", "¢", "£", "¤", "¥", "¦", "§", "¨",
      "©", "ª", "«", "¬", "­", "®", "¯", "°",
      "±", "²", "³", "´", "µ", "¶", "·", "¸",
      "¹", "º", "»", "¼", "½", "¾", "¿", "À",
      "Á", "Â", "Ã", "Ä", "Å", "Æ", "Ç", "È",
      "É", "Ê", "Ë", "Ì", "Í", "Î", "Ï", "Ð",
      "Ñ", "Ò", "Ó", "Ô", "Õ", "Ö", "×", "Ø",
      "Ù", "Ú", "Û", "Ü", "Ý", "Þ", "ß", "à",
      "á", "â", "ã", "ä", "å", "æ", "ç", "è",
      "é", "ê", "ë", "ì", "í", "î", "ï", "ð",
      "ñ", "ò", "ó", "ô", "õ", "ö", "÷", "ø",
      "ù", "ú", "û", "ü", "ý", "þ", "ÿ" >>

\* the characters for which str.isdigit() is true: the decimal digits and the
\* superscripts two, three and one
DigitChars == {"0", "1", "2", "3", "4", "5", "6", "7", "8", "9", "²", "³", "¹"}

\* the characters \d of the re module matches: the decimal digits only
DecimalChars == {"0", "1", "2", "3", "4", "5", "6", "7", "8", "9"}

\* the characters for which str.isspace() is true, which str.strip() removes: tab, line
\* feed, vertical tab, form feed, carriage return, U+001C .. U+001F, space, U+0085
\* and the no-break space U+00A0
SpaceChars == {"\t", "\n", "", "\f", "\r", "", "", "", "", " ", "", " "}

Min(a, b) == IF a < b THEN a ELSE b

\* str.isdigit() of one character
isdigit(ch) == ch \in DigitChars

\* s[a:b] with Python's clipping (0-based, b exclusive, 0 <= a)
Slice(s, a, b) == SubSeq(s, a + 1, Min(b, Len(s)))

\* s[a:]
SliceFrom(s, a) == SubSeq(s, a + 1, Len(s))

\* s.startswith(p)
startswith(s, p) == Len(s) >= Len(p) /\ SubSeq(s, 1, Len(p)) = p

\* s.strip()
strip(s) ==
    LET solid == {k \in 1..Len(s) : s[k] \notin SpaceChars}
    IN  IF solid = {} THEN <<>>
        ELSE SubSeq(s, CHOOSE k \in solid : \A m \in solid : k <= m,
                       CHOOSE k \in solid : \A m \in solid : k >= m)

\* s.count(ch) for a one-character ch
count(s, ch) == Cardinality({k \in 1..Len(s) : s[k] = ch})

\* k in s  (substring test)
contains(s, k) ==
    \E a \in 0..(Len(s) - Len(k)) : SubSeq(s, a + 1, a + Len(k)) = k

\* x in list
member(x, list) == \E k \in 1..Len(list) : list[k] = x

\* order-preserving de-duplication loop: seen=set(); for p in out: if p and p not in seen
RECURSIVE uniq_from(_, _)
uniq_from(list, acc) ==
    IF list = <<>> THEN acc
    ELSE LET p == Head(list)
         IN  uniq_from(Tail(list),
                       IF p # <<>> /\ ~member(p, acc) THEN Append(acc, p) ELSE acc)

\* a plausible slip: the list is returned as built, without the seen test
uniq_without_seen_test(list) == list

uniq(list) == uniq_from(list, <<>>)

RECURSIVE concat(_)
concat(lists) == IF lists = <<>> THEN <<>> ELSE Head(lists) \o concat(Tail(lists))

\* \d of a regular expression on one character
re_digit(ch) == ch \in DecimalChars

\* \d{n} at s[a .. a+n-1] (1-based): the characters all exist and are decimal digits
digits_at(s, a, n) == a + n - 1 <= Len(s) /\ \A k \in a..(a + n - 1) : re_digit(s[k])

char_at(s, k, ch) == k <= Len(s) /\ s[k] = ch

----------------------------------------------------------------------------
(* clean_duplicates_on_contacts.py *)

only_digits(s) == SelectSeq(s, isdigit)

country_from_e164(e) ==
    IF startswith(e, <<"+", "1">>) THEN US
    ELSE IF startswith(e, <<"+", "5", "2">>) THEN MX
    ELSE INTL

DEFAULT_US_CC == <<"+", "1">>

\* a plausible slip: the 10-digit default rule is left out
normalize_bare_digits_without_ten_digit_rule(d, add_mx_mobile_one) ==
    LET local == SliceFrom(d, 2)
    IN  IF d = <<>> THEN None
        ELSE IF startswith(d, <<"5", "2">>) /\ Len(d) \in {12, 13} THEN
            IF add_mx_mobile_one /\ ~startswith(d, <<"5", "2", "1">>) /\ Len(local) = 10
            THEN <<"+", "5", "2", "1">> \o local
            ELSE <<"+">> \o d
        ELSE IF Len(d) = 11 /\ startswith(d, <<"1">>) THEN DEFAULT_US_CC \o SliceFrom(d, 1)
        ELSE IF Len(d) >= 8 THEN <<"+">> \o d
        ELSE None

\* normalize_phone after "d = only_digits(s)": the input has no leading '+'
normalize_bare_digits(d, add_mx_mobile_one) ==
    LET local == SliceFrom(d, 2)
    IN  IF d = <<>> THEN None
        ELSE IF startswith(d, <<"5", "2">>) /\ Len(d) \in {12, 13} THEN
            IF add_mx_mobile_one /\ ~startswith(d, <<"5", "2", "1">>) /\ Len(local) = 10
            THEN <<"+", "5", "2", "1">> \o local
            ELSE <<"+">> \o d
        ELSE IF Len(d) = 11 /\ startswith(d, <<"1">>) THEN DEFAULT_US_CC \o SliceFrom(d, 1)
        ELSE IF Len(d) = 10 THEN DEFAULT_US_CC \o d
        ELSE IF Len(d) >= 8 THEN <<"+">> \o d
        ELSE None

normalize_phone_cfg(raw, add_mx_mobile_one) ==
    IF raw = None \/ raw = <<>> THEN None
    ELSE
    LET s == strip(raw)
        d == only_digits(s)
        local == SliceFrom(d, 2)
    IN  IF startswith(s, <<"+">>) THEN
            IF Len(d) < 8 THEN None
            ELSE IF startswith(d, <<"5", "2">>) THEN
                IF add_mx_mobile_one /\ ~startswith(d, <<"5", "2", "1">>) /\ Len(local) = 10
                THEN <<"+", "5", "2", "1">> \o local
                ELSE <<"+">> \o d
            ELSE <<"+">> \o d
        ELSE normalize_bare_digits(d, add_mx_mobile_one)

normalize_phone(raw) == normalize_phone_cfg(raw, ADD_MX_MOBILE_ONE)

\* the body of "for i in range(n)": the windows found at offset k, in append order
sliding_windows_at(digits, k) ==
    LET w11 == Slice(digits, k, k + 11)
        w12 == Slice(digits, k, k + 12)
        w13 == Slice(digits, k, k + 13)
    IN  (IF Len(w11) = 11 /\ startswith(w11, <<"1">>)
            THEN << <<"+", "1">> \o SliceFrom(w11, 1) >> ELSE <<>>)
        \o (IF Len(w12) = 12 /\ startswith(w12, <<"5", "2">>)
            THEN << <<"+">> \o w12 >> ELSE <<>>)
        \o (IF Len(w13) = 13 /\ startswith(w13, <<"5", "2", "1">>)
            THEN << <<"+">> \o w13 >> ELSE <<>>)

sliding_candidates_from_digits(digits) ==
    uniq(concat([k \in 1..Len(digits) |-> sliding_windows_at(digits, k - 1)]))

\* length of the match of  \+1\d{10}|\+521?\d{10}  starting at 1-based position k, 0 if none
match_us_mx(s, k) ==
    IF ~char_at(s, k, "+") THEN 0
    ELSE IF char_at(s, k + 1, "1") /\ digits_at(s, k + 2, 10) THEN 12
    ELSE IF char_at(s, k + 1, "5") /\ char_at(s, k + 2, "2") THEN
        IF char_at(s, k + 3, "1") /\ digits_at(s, k + 4, 10) THEN 14
        ELSE IF digits_at(s, k + 3, 10) THEN 13
        ELSE 0
    ELSE 0

\* re.findall(r"\+1\d{10}|\+521?\d{10}", s): leftmost non-overlapping matches from k on
RECURSIVE findall_us_mx_from(_, _)
findall_us_mx_from(s, k) ==
    IF k > Len(s) THEN <<>>
    ELSE LET m == match_us_mx(s, k)
         IN  IF m > 0 THEN <<SubSeq(s, k, k + m - 1)>> \o findall_us_mx_from(s, k + m)
             ELSE findall_us_mx_from(s, k + 1)

findall_us_mx(s) == findall_us_mx_from(s, 1)

\* re.split(r"(?=\+)", s): cut before every '+', the piece before the first cut included
split_before_plus(s) ==
    LET cuts == {k \in 1..Len(s) : s[k] = "+"}
        nth(n) == CHOOSE k \in cuts : Cardinality({m \in cuts : m < k}) = n - 1
        c == Cardinality(cuts)
    IN  IF c = 0 THEN <<s>>
        ELSE <<SubSeq(s, 1, nth(1) - 1)>>
             \o [n \in 1..c |-> SubSeq(s, nth(n), IF n = c THEN Len(s) ELSE nth(n + 1) - 1)]

\* a plausible slip: the whole-field normalization is put in front of the tokens
\* (tokens.insert(0, e)) instead of being appended
extract_phone_candidates_cfg_fallback_first(txt, add_mx_mobile_one) ==
    IF txt = None \/ txt = <<>> THEN <<>>
    ELSE
    LET tokens1 == findall_us_mx(txt)
        parts == SelectSeq(split_before_plus(txt), LAMBDA p : strip(p) # <<>>)
        tokens2 == IF count(txt, "+") > 1
                   THEN tokens1 \o concat([n \in 1..Len(parts) |-> findall_us_mx(parts[n])])
                   ELSE tokens1
        tokens3 == IF tokens2 = <<>> \/ Len(only_digits(txt)) > 15
                   THEN tokens2 \o sliding_candidates_from_digits(only_digits(txt))
                   ELSE tokens2
        e == normalize_phone_cfg(txt, add_mx_mobile_one)
        tokens4 == IF e # None /\ ~member(e, tokens3) THEN <<e>> \o tokens3 ELSE tokens3
    IN  uniq(tokens4)

extract_phone_candidates_cfg(txt, add_mx_mobile_one) ==
    IF txt = None \/ txt = <<>> THEN <<>>
    ELSE
    LET tokens1 == findall_us_mx(txt)
        parts == SelectSeq(split_before_plus(txt), LAMBDA p : strip(p) # <<>>)
        tokens2 == IF count(txt, "+") > 1
                   THEN tokens1 \o concat([n \in 1..Len(parts) |-> findall_us_mx(parts[n])])
                   ELSE tokens1
        tokens3 == IF tokens2 = <<>> \/ Len(only_digits(txt)) > 15
                   THEN tokens2 \o sliding_candidates_from_digits(only_digits(txt))
                   ELSE tokens2
        e == normalize_phone_cfg(txt, add_mx_mobile_one)
        tokens4 == IF e # None /\ ~member(e, tokens3) THEN Append(tokens3, e) ELSE tokens3
    IN  uniq(tokens4)

extract_phone_candidates(txt) == extract_phone_candidates_cfg(txt, ADD_MX_MOBILE_ONE)

----------------------------------------------------------------------------
(* dict rows, str.lower(), str comparison, list.sort *)

\* row.get(key, "")
get(row, key) == IF key \in DOMAIN row THEN row[key] ELSE <<>>

\* (v or "")
or_empty(v) == IF v = None THEN <<>> ELSE v

\* the characters str.lower() changes (A-Z, and the upper-case letters of U+00C0 .. U+00DE)
UpperChars ==
    <<
      "A", "B", "C", "D", "E", "F", "G", "H", "I", "J", "K", "L", "M", "N",
      "O", "P", "Q", "R", "S", "T", "U", "V", "W", "X", "Y", "Z", "À", "Á",
      "Â", "Ã", "Ä", "Å", "Æ", "Ç", "È", "É", "Ê", "Ë", "Ì", "Í", "Î", "Ï",
      "Ð", "Ñ", "Ò", "Ó", "Ô", "Õ", "Ö", "Ø", "Ù", "Ú", "Û", "Ü", "Ý", "Þ" >>
\* what str.lower() makes of them, index by index
LowerChars ==
    <<
      "a", "b", "c", "d", "e", "f", "g", "h", "i", "j", "k", "l", "m", "n",
      "o", "p", "q", "r", "s", "t", "u", "v", "w", "x", "y", "z", "à", "á",
      "â", "ã", "ä", "å", "æ", "ç", "è", "é", "ê", "ë", "ì", "í", "î", "ï",
      "ð", "ñ", "ò", "ó", "ô", "õ", "ö", "ø", "ù", "ú", "û", "ü", "ý", "þ" >>

index_of(ch, table) == CHOOSE k \in 1..Len(table) : table[k] = ch

\* ord(ch): the place of the character in Latin1
ord(ch) ==
    IF \E k \in 1..Len(Latin1) : Latin1[k] = ch THEN index_of(ch, Latin1)
    ELSE IF ch = "U+0178" THEN 376
    ELSE IF ch = "U+039C" THEN 924
    ELSE 65536

\* s.lower()
lower(s) ==
    [k \in 1..Len(s) |->
        IF \E j \in 1..Len(UpperChars) : UpperChars[j] = s[k]
        THEN LowerChars[CHOOSE j \in 1..Len(UpperChars) : UpperChars[j] = s[k]]
        ELSE s[k]]

\* a < b on str: first differing code point decides, a proper prefix is smaller
RECURSIVE str_lt(_, _)
str_lt(a, b) ==
    IF b = <<>> THEN FALSE
    ELSE IF a = <<>> THEN TRUE
    ELSE IF Head(a) # Head(b) THEN ord(Head(a)) < ord(Head(b))
    ELSE str_lt(Tail(a), Tail(b))

\* a < b on the tuples (score, e164, country)
tuple_lt(a, b) ==
    IF a[1] # b[1] THEN a[1] < b[1]
    ELSE IF a[2] # b[2] THEN str_lt(a[2], b[2])
    ELSE str_lt(a[3], b[3])

\* one step of a stable descending sort: x goes after every element that is not smaller
RECURSIVE insert_desc(_, _)
insert_desc(sorted, x) ==
    IF sorted = <<>> THEN <<x>>
    ELSE IF tuple_lt(Head(sorted), x) THEN <<x>> \o sorted
    ELSE <<Head(sorted)>> \o insert_desc(Tail(sorted), x)

\* list.sort(reverse=True) on (score, e164, country) tuples
RECURSIVE sort_reverse_from(_, _)
sort_reverse_from(list, acc) ==
    IF list = <<>> THEN acc
    ELSE sort_reverse_from(Tail(list), insert_desc(acc, Head(list)))

sort_reverse(list) == sort_reverse_from(list, <<>>)

\* " ".join(x for x in [first, last] if x)
join_first_last(first, last) ==
    IF first # <<>> /\ last # <<>> THEN first \o <<" ">> \o last
    ELSE IF first # <<>> THEN first
    ELSE last

PHONE_COLS ==
    <<"Phone 1 - Value", "Phone 2 - Value", "Phone 3 - Value",
      "Phone 4 - Value", "Phone 5 - Value", "Phone 6 - Value">>
LABEL_COLS ==
    <<"Phone 1 - Label", "Phone 2 - Label", "Phone 3 - Label",
      "Phone 4 - Label", "Phone 5 - Label", "Phone 6 - Label">>

----------------------------------------------------------------------------
(* clean_duplicates_on_contacts.py: record selectors *)

pick_best_from_simple_row_cfg(row, add_mx_mobile_one) ==
    LET phone_field == strip(or_empty(get(row, "Phone")))
        cands == extract_phone_candidates_cfg(phone_field, add_mx_mobile_one)
    IN  IF phone_field = <<>> THEN None
        ELSE IF cands # <<>> THEN cands[1] ELSE None

pick_best_from_simple_row(row) == pick_best_from_simple_row_cfg(row, ADD_MX_MOBILE_ONE)

mobile_keywords ==
    << <<"m", "o", "b", "i", "l", "e">>, <<"c", "e", "l", "l">>,
       <<"m", "ó", "v", "i", "l">>, <<"m", "ó", "v", "i", "l">> >>

\* the loop "for i, col in enumerate(PHONE_COLS)" from column n on, best so far given
RECURSIVE pick_best_google_from(_, _, _, _)
pick_best_google_from(row, n, best, add_mx_mobile_one) ==
    IF n > Len(PHONE_COLS) THEN best
    ELSE
    LET val == strip(or_empty(get(row, PHONE_COLS[n])))
        label == lower(or_empty(get(row, LABEL_COLS[n])))
        cands == extract_phone_candidates_cfg(val, add_mx_mobile_one)
    IN  IF val = <<>> THEN pick_best_google_from(row, n + 1, best, add_mx_mobile_one)
        ELSE IF cands = <<>> THEN pick_best_google_from(row, n + 1, best, add_mx_mobile_one)
        ELSE IF \E k \in 1..Len(mobile_keywords) : contains(label, mobile_keywords[k])
            THEN cands[1]
        ELSE pick_best_google_from(row, n + 1,
                                   IF best = None THEN cands[1] ELSE best,
                                   add_mx_mobile_one)

pick_best_from_google_row_cfg(row, add_mx_mobile_one) ==
    pick_best_google_from(row, 1, None, add_mx_mobile_one)

pick_best_from_google_row(row) == pick_best_from_google_row_cfg(row, ADD_MX_MOBILE_ONE)

Unknown == <<"U", "n", "k", "n", "o", "w", "n">>

full_name(row) ==
    LET name == strip(or_empty(get(row, "Name")))
        first == strip(or_empty(get(row, "First Name")))
        last == strip(or_empty(get(row, "Last Name")))
        nick == strip(or_empty(get(row, "Nickname")))
        joined == join_first_last(first, last)
        n == IF joined # <<>> THEN joined ELSE nick
        org == strip(or_empty(get(row, "Organization Name")))
        email == strip(or_empty(get(row, "E-mail 1 - Value")))
    IN  IF name # <<>> THEN name
        ELSE IF n # <<>> THEN n
        ELSE IF org # <<>> THEN org
        ELSE IF email # <<>> THEN email
        ELSE Unknown

----------------------------------------------------------------------------
(* clean_google_contacts.py *)

DEFAULT_US_COUNTRY_CODE == <<"+", "1">>

\* a plausible slip: the leading 1 of the 11-digit form is kept behind the country code
gc_normalize_bare_digits_keeping_leading_one(digits, add_mx_mobile_one) ==
    IF Len(digits) = 11 /\ startswith(digits, <<"1">>)
        THEN << DEFAULT_US_COUNTRY_CODE \o digits, US >>
    ELSE IF Len(digits) = 10 THEN << DEFAULT_US_COUNTRY_CODE \o digits, US >>
    ELSE IF startswith(digits, <<"5", "2">>) /\ Len(digits) \in {12, 13} THEN
        IF add_mx_mobile_one /\ ~startswith(digits, <<"5", "2", "1">>)
           /\ Len(SliceFrom(digits, 2)) = 10
        THEN << <<"+", "5", "2", "1">> \o SliceFrom(digits, 2), MX >>
        ELSE << <<"+">> \o digits, MX >>
    ELSE IF Len(digits) >= 8 THEN << <<"+">> \o digits, INTL >>
    ELSE <<None, None>>

\* normalize_phone from "Looks like US-style" on: no '+', no 00, no 011
gc_normalize_bare_digits(digits, add_mx_mobile_one) ==
    IF Len(digits) = 11 /\ startswith(digits, <<"1">>)
        THEN << DEFAULT_US_COUNTRY_CODE \o SliceFrom(digits, 1), US >>
    ELSE IF Len(digits) = 10 THEN << DEFAULT_US_COUNTRY_CODE \o digits, US >>
    ELSE IF startswith(digits, <<"5", "2">>) /\ Len(digits) \in {12, 13} THEN
        IF add_mx_mobile_one /\ ~startswith(digits, <<"5", "2", "1">>)
           /\ Len(SliceFrom(digits, 2)) = 10
        THEN << <<"+", "5", "2", "1">> \o SliceFrom(digits, 2), MX >>
        ELSE << <<"+">> \o digits, MX >>
    ELSE IF Len(digits) >= 8 THEN << <<"+">> \o digits, INTL >>
    ELSE <<None, None>>

\* returns the pair (e164_number, country)
gc_normalize_phone_cfg(raw, add_mx_mobile_one) ==
    IF raw = None \/ raw = <<>> THEN <<None, None>>
    ELSE
    LET s == strip(raw)
        sd == only_digits(s)
        country == IF startswith(s, <<"+", "5", "2">>) THEN MX
                   ELSE IF startswith(s, <<"+", "1">>) THEN US ELSE INTL
        d00 == only_digits(SliceFrom(s, 2))
        d011 == SliceFrom(sd, 3)
    IN  IF startswith(s, <<"+">>) /\ Len(sd) >= 8 THEN
            IF country = MX /\ add_mx_mobile_one
               /\ startswith(s, <<"+", "5", "2">>) /\ ~startswith(s, <<"+", "5", "2", "1">>)
               /\ Len(SliceFrom(sd, 2)) = 10
            THEN << <<"+", "5", "2", "1">> \o SliceFrom(sd, 2), MX >>
            ELSE << <<"+">> \o sd, country >>
        ELSE IF startswith(s, <<"0", "0">>) THEN
            IF startswith(d00, <<"5", "2">>) THEN
                IF add_mx_mobile_one /\ Len(SliceFrom(d00, 2)) = 10
                   /\ ~startswith(d00, <<"5", "2", "1">>)
                THEN << <<"+", "5", "2", "1">> \o SliceFrom(d00, 2), MX >>
                ELSE << <<"+", "5", "2">> \o SliceFrom(d00, 2), MX >>
            ELSE << <<"+">> \o d00, INTL >>
        ELSE IF startswith(sd, <<"0", "1", "1">>) THEN
            IF startswith(d011, <<"5", "2">>) THEN
                IF add_mx_mobile_one /\ Len(SliceFrom(d011, 2)) = 10
                   /\ ~startswith(d011, <<"5", "2", "1">>)
                THEN << <<"+", "5", "2", "1">> \o SliceFrom(d011, 2), MX >>
                ELSE << <<"+", "5", "2">> \o SliceFrom(d011, 2), MX >>
            ELSE << <<"+">> \o d011, INTL >>
        ELSE gc_normalize_bare_digits(sd, add_mx_mobile_one)

gc_normalize_phone(raw) == gc_normalize_phone_cfg(raw, ADD_MX_MOBILE_ONE)

gc_mobile_keywords ==
    << <<"m", "o", "b", "i", "l", "e">>, <<"c", "e", "l", "l">>,
       <<"m", "ó", "v", "i", "l">> >>

\* the candidates list built by the loop over PHONE_COLS, from column n on
RECURSIVE gc_candidates_from(_, _, _)
gc_candidates_from(row, n, add_mx_mobile_one) ==
    IF n > Len(PHONE_COLS) THEN <<>>
    ELSE
    LET val == strip(get(row, PHONE_COLS[n]))
        label == lower(or_empty(get(row, LABEL_COLS[n])))
        nc == gc_normalize_phone_cfg(val, add_mx_mobile_one)
        score == IF \E k \in 1..Len(gc_mobile_keywords) : contains(label, gc_mobile_keywords[k])
                 THEN 2 ELSE 1
        rest == gc_candidates_from(row, n + 1, add_mx_mobile_one)
    IN  IF val = <<>> THEN rest
        ELSE IF nc[1] # None THEN << <<score, nc[1], nc[2]>> >> \o rest
        ELSE rest

\* a plausible slip: the candidates are not sorted by score
pick_best_number_cfg_unsorted(row, add_mx_mobile_one) ==
    IF \E n \in 1..Len(PHONE_COLS) : get(row, PHONE_COLS[n]) = None THEN AttributeError
    ELSE
    LET candidates == gc_candidates_from(row, 1, add_mx_mobile_one)
    IN  IF candidates = <<>> THEN <<None, None>>
        ELSE <<candidates[1][2], candidates[1][3]>>

\* returns the pair (phone, country); row.get(col, "").strip() raises on a None value
pick_best_number_cfg(row, add_mx_mobile_one) ==
    IF \E n \in 1..Len(PHONE_COLS) : get(row, PHONE_COLS[n]) = None THEN AttributeError
    ELSE
    LET candidates == sort_reverse(gc_candidates_from(row, 1, add_mx_mobile_one))
    IN  IF candidates = <<>> THEN <<None, None>>
        ELSE <<candidates[1][2], candidates[1][3]>>

pick_best_number(row) == pick_best_number_cfg(row, ADD_MX_MOBILE_ONE)

gc_full_name(row) ==
    LET first == strip(or_empty(get(row, "First Name")))
        last == strip(or_empty(get(row, "Last Name")))
        nick == strip(or_empty(get(row, "Nickname")))
        joined == join_first_last(first, last)
        name == IF joined = <<>> /\ nick # <<>> THEN nick ELSE joined
        org == strip(or_empty(get(row, "Organization Name")))
        email == strip(or_empty(get(row, "E-mail 1 - Value")))
    IN  IF name # <<>> THEN name
        ELSE IF org # <<>> THEN org
        ELSE IF email # <<>> THEN email
        ELSE Unknown

----------------------------------------------------------------------------
(* fix_long_numbers.py *)

\* re.sub(r"\D", "", s)
sub_non_digits(s) == SelectSeq(s, re_digit)

\* PAT_US = \+1\d{10}: length of the match at 1-based position k, 0 if none
match_pat_us(s, k) ==
    IF char_at(s, k, "+") /\ char_at(s, k + 1, "1") /\ digits_at(s, k + 2, 10) THEN 12 ELSE 0

\* PAT_MX = \+52(?:1)?\d{10}
match_pat_mx(s, k) ==
    IF char_at(s, k, "+") /\ char_at(s, k + 1, "5") /\ char_at(s, k + 2, "2") THEN
        IF char_at(s, k + 3, "1") /\ digits_at(s, k + 4, 10) THEN 14
        ELSE IF digits_at(s, k + 3, 10) THEN 13
        ELSE 0
    ELSE 0

\* PAT_ANY_PLUS = \+\d{8,15}, greedy
match_pat_any_plus(s, k) ==
    IF char_at(s, k, "+") /\ digits_at(s, k + 1, 8)
    THEN 1 + (CHOOSE n \in 8..15 :
                  /\ digits_at(s, k + 1, n)
                  /\ (n = 15 \/ ~digits_at(s, k + 1, n + 1)))
    ELSE 0

\* pattern.search(s): the leftmost match as a string, None if there is none;
\* lengths[k] is the length of the pattern's match at position k
search(s, lengths) ==
    LET hits == {k \in 1..Len(s) : lengths[k] > 0}
    IN  IF hits = {} THEN None
        ELSE LET k == CHOOSE k \in hits : \A m \in hits : k <= m
             IN  SubSeq(s, k, k + lengths[k] - 1)

pick_window(raw) ==
    LET s == strip(raw)
        digits == sub_non_digits(s)
        us == search(s, [k \in 1..Len(s) |-> match_pat_us(s, k)])
        mx == search(s, [k \in 1..Len(s) |-> match_pat_mx(s, k)])
        any_plus == search(s, [k \in 1..Len(s) |-> match_pat_any_plus(s, k)])
    IN  IF Len(digits) <= 15 THEN s
        ELSE IF us # None THEN us
        ELSE IF mx # None THEN mx
        ELSE IF any_plus # None THEN any_plus
        ELSE IF digits # <<>> THEN <<"+">> \o Slice(digits, 0, 15) ELSE s

country_of(e164) ==
    IF startswith(e164, <<"+", "1">>) THEN US
    ELSE IF startswith(e164, <<"+", "5", "2">>) THEN MX
    ELSE INTL

----------------------------------------------------------------------------
(* Calls of the normalizers, the extractor and the selectors on one field *)

MaxChunks == 3

\* pieces phone fields of a contact export are made of
Chunks ==
    { <<"+">>, <<"0", "0">>, <<"0", "1", "1">>, <<"1">>, <<"5", "2">>, <<"4", "4">>,
      <<" ">>, <<",">>, <<" ">>, <<"²">>,
      <<"1", "2", "3", "4", "5", "6", "7">>,
      <<"8", "1", "7", "5", "6", "4", "8", "5", "2", "4">>,
      <<"(", "2", "1", "4", ")", " ", "5", "5", "5", "-", "1", "2", "1", "2">>,
      <<"1", "8", "1", "7", "3", "0", "7", "0", "5", "1", "5">> }

\* every concatenation of at most n chunks
RECURSIVE Texts(_)
Texts(n) ==
    IF n = 0 THEN {<<>>}
    ELSE LET shorter == Texts(n - 1)
         IN  shorter \cup {t \o c : t \in shorter, c \in Chunks}

\* ask_openai is not running
NoAsk ==
    /\ max_retries = 0 /\ models_left = <<>> /\ attempt = 0
    /\ last_err = None /\ backoff = <<>> /\ calls = <<>> /\ result = Unset

\* send_messages is not running
NoSend ==
    /\ args = <<>> /\ start = 0 /\ end = 0 /\ idx = 0 /\ sent = 0
    /\ stdout_encoding = ""
    /\ created = <<>> /\ sent_log = <<>> /\ error_log = <<>> /\ printed = <<>>

NoBatch ==
    /\ script = "" /\ simple_schema = FALSE /\ rows = <<>> /\ kept = <<>>
    /\ i = 0 /\ out_rows = <<>> /\ seen = {} /\ pc = ""
    /\ NoAsk /\ NoSend

NoContact == contact = <<>> /\ picked = Unset

NoCall == text = <<>> /\ call = "" /\ ret = Unset /\ again = Unset

batch_vars == <<script, simple_schema, rows, kept, i, out_rows, seen, pc, ask_vars, send_vars>>
contact_vars == <<contact, picked>>
call_vars == <<text, call, ret, again>>

InitFn ==
    /\ ADD_MX_MOBILE_ONE \in BOOLEAN
    /\ text \in Texts(MaxChunks)
    /\ call = "" /\ ret = Unset /\ again = Unset
    /\ NoContact /\ NoBatch

Returns(name, value) ==
    /\ call = ""
    /\ call' = name
    /\ ret' = value
    /\ UNCHANGED <<ADD_MX_MOBILE_ONE, text, again, contact_vars, batch_vars>>

CallNormalizePhone == Returns("normalize_phone", normalize_phone(text))

CallGcNormalizePhone == Returns("gc_normalize_phone", gc_normalize_phone(text))

CallExtractPhoneCandidates ==
    Returns("extract_phone_candidates", extract_phone_candidates(text))

\* the digit windows of the field's digits, as extract_phone_candidates asks for them
CallSlidingCandidatesFromDigits ==
    Returns("sliding_candidates_from_digits", sliding_candidates_from_digits(only_digits(text)))

\* a simple-schema row whose Phone column is text
CallPickBestFromSimpleRow ==
    Returns("pick_best_from_simple_row", pick_best_from_simple_row([Phone |-> text]))

\* Google-schema rows whose only phone column is Phone 1, without a label
CallPickBestFromGoogleRow ==
    Returns("pick_best_from_google_row",
            pick_best_from_google_row(("Phone 1 - Value" :> text) @@ ("Phone 1 - Label" :> <<>>)))

CallPickBestNumber ==
    Returns("pick_best_number",
            pick_best_number(("Phone 1 - Value" :> text) @@ ("Phone 1 - Label" :> <<>>)))

\* the number a normalizer returned is normalized once more
NormalizeAgain ==
    /\ call = "normalize_phone" /\ ret # None /\ again = Unset
    /\ again' = normalize_phone(ret)
    /\ UNCHANGED <<ADD_MX_MOBILE_ONE, text, call, ret, contact_vars, batch_vars>>

GcNormalizeAgain ==
    /\ call = "gc_normalize_phone" /\ ret[1] # None /\ again = Unset
    /\ again' = gc_normalize_phone(ret[1])
    /\ UNCHANGED <<ADD_MX_MOBILE_ONE, text, call, ret, contact_vars, batch_vars>>

NextFn ==
    \/ CallNormalizePhone
    \/ CallGcNormalizePhone
    \/ CallExtractPhoneCandidates
    \/ CallSlidingCandidatesFromDigits
    \/ CallPickBestFromSimpleRow
    \/ CallPickBestFromGoogleRow
    \/ CallPickBestNumber
    \/ NormalizeAgain
    \/ GcNormalizeAgain

SpecFn == InitFn /\ [][NextFn]_vars

----------------------------------------------------------------------------
(* Calls of the record selectors on one Google-schema contact *)

MaxFields == 2

Home == <<"H", "o", "m", "e">>
Mobile == <<"M", "o", "b", "i", "l", "e">>
MOBILE == <<"M", "O", "B", "I", "L", "E">>
Movil == <<"M", "o", "v", "i", "l">>

FieldValues ==
    { <<"8", "1", "7", "5", "6", "4", "8", "5", "2", "4">>,
      <<"(", "2", "1", "4", ")", " ", "5", "5", "5", "-", "1", "2", "1", "2">>,
      <<"N", "/", "A">>,
      <<"8", "1", "7", "5", "6", "4", "8", "5", "2", "²">> }

FieldLabels == {<<>>, Home, Mobile, MOBILE, Movil}

\* the phone columns a contact of the pool may have filled
FilledCols == {1, 2, 3, 6}

\* the row csv.DictReader builds: every phone column present, "" where the cell is empty
google_row(values, labels) ==
    [c \in {PHONE_COLS[n] : n \in 1..6} \cup {LABEL_COLS[n] : n \in 1..6} |->
        LET n == CHOOSE n \in 1..6 : c \in {PHONE_COLS[n], LABEL_COLS[n]}
        IN  IF n \notin DOMAIN values THEN <<>>
            ELSE IF c = PHONE_COLS[n] THEN values[n] ELSE labels[n]]

\* contacts with at most MaxFields filled phone columns
Contacts ==
    { google_row(v, l) :
        <<v, l>> \in UNION { [cols -> FieldValues] \X [cols -> FieldLabels] :
                             cols \in {c \in SUBSET FilledCols : Cardinality(c) <= MaxFields} } }

InitSel ==
    /\ ADD_MX_MOBILE_ONE = FALSE
    /\ contact \in Contacts
    /\ picked = Unset
    /\ call = "" /\ text = <<>> /\ ret = Unset /\ again = Unset
    /\ NoBatch

Selects(name, value) ==
    /\ call = ""
    /\ call' = name
    /\ picked' = value
    /\ UNCHANGED <<ADD_MX_MOBILE_ONE, text, ret, again, contact, batch_vars>>

SelectFromGoogleRow == Selects("pick_best_from_google_row", pick_best_from_google_row(contact))

SelectBestNumber == Selects("pick_best_number", pick_best_number(contact))

NextSel == SelectFromGoogleRow \/ SelectBestNumber

SpecSel == InitSel /\ [][NextSel]_vars

----------------------------------------------------------------------------
(* The batch runs: main of the two cleaning scripts, and fix_long_numbers *)

MaxRows == 3

Ann == <<"A", "n", "n">>
Bob == <<"B", "o", "b">>
WhatsApp == <<"W", "h", "a", "t", "s", "A", "p", "p">>

Tel817 == <<"8", "1", "7", "5", "6", "4", "8", "5", "2", "4">>
Tel817Plus == <<"+", "1", "8", "1", "7", "5", "6", "4", "8", "5", "2", "4">>
Tel214 == <<"(", "2", "1", "4", ")", " ", "5", "5", "5", "-", "1", "2", "1", "2">>
NotAvailable == <<"N", "/", "A">>

\* rows of an export with the columns Name, Phone
SimpleRows ==
    { [Name |-> Ann, Phone |-> Tel817], [Name |-> Bob, Phone |-> Tel817Plus],
      [Name |-> Ann, Phone |-> Tel214], [Name |-> Bob, Phone |-> Tel214],
      [Name |-> Ann, Phone |-> NotAvailable] }

google_export_row(name, value1, label1, value2, label2) ==
    ("First Name" :> name) @@ ("Phone 1 - Value" :> value1) @@ ("Phone 1 - Label" :> label1)
        @@ ("Phone 2 - Value" :> value2) @@ ("Phone 2 - Label" :> label2)

\* rows of a Google Contacts export with the columns First Name, Phone 1, Phone 2
GoogleRows ==
    { google_export_row(Ann, Tel817, Home, Tel214, Mobile),
      google_export_row(Bob, Tel214, Home, <<>>, <<>>),
      google_export_row(Ann, <<>>, <<>>, Tel817, Mobile),
      google_export_row(Bob, Tel817Plus, <<>>, <<>>, <<>>),
      google_export_row(Ann, NotAvailable, Home, <<>>, <<>>) }

\* a short line of the file: csv.DictReader fills the missing cells with None
ShortRow == google_export_row(Bob, Tel817, Home, None, None)
ShortSimpleRow == [Name |-> Bob, Phone |-> None]

Tel8173 == <<"+", "1", "8", "1", "7", "3", "0", "7", "0", "5", "1", "5">>

cleaned_row(name, phone) ==
    [Name |-> name, Phone_E164 |-> phone, Country |-> US, Channel |-> WhatsApp, OptIn |-> <<>>]

\* a short line of contacts_clean_for_whatsapp.csv: only the Name cell
ShortCleanedRow ==
    [Name |-> Bob, Phone_E164 |-> None, Country |-> None, Channel |-> None, OptIn |-> None]

\* a line with one cell more than the header: csv.DictReader keeps the cells in
\* excess under the key None, written "<None>" here
LongCleanedRow == cleaned_row(Ann, Tel817Plus) @@ ("<None>" :> <<"x">>)

\* rows of contacts_clean_for_whatsapp.csv
CleanedRows ==
    { cleaned_row(Ann, Tel8173), cleaned_row(Bob, Tel8173 \o Tel817),
      cleaned_row(Ann, Tel817Plus), cleaned_row(Bob, Tel817Plus),
      cleaned_row(Ann, <<>>), ShortCleanedRow, LongCleanedRow }

\* encodings sys.stdout can have: UTF-8, the Windows code page of a redirected
\* stdout, and the ASCII of the C locale
Encodings == {"utf-8", "cp1252", "ascii"}

\* ch.encode(encoding) succeeds; cp1252 has no U+0080 .. U+009F, and of the
\* characters past U+00FF written in this model it has U+2019, U+2014 and U+0178
can_encode_char(encoding, ch) ==
    IF encoding = "utf-8" THEN TRUE
    ELSE IF encoding = "ascii" THEN ord(ch) < 128
    ELSE \/ ord(ch) < 128
         \/ ord(ch) >= 160 /\ ord(ch) <= 255
         \/ ch \in {"U+2019", "U+2014", "U+0178"}

\* the check mark (U+2705) that opens the line the scripts print once the output
\* file is written
WroteLine == <<"U+2705">>

\* every list of at most n rows of the pool
Lists(pool, n) == UNION {[1..k -> pool] : k \in 0..n}

Init ==
    /\ ADD_MX_MOBILE_ONE = FALSE
    /\ NoCall /\ NoContact
    /\ \/ script = "clean_duplicates_on_contacts" /\ pc = "start"
          /\ rows \in Lists(SimpleRows \cup {ShortSimpleRow}, MaxRows)
                       \cup Lists(GoogleRows \cup {ShortRow}, MaxRows)
       \/ script = "clean_google_contacts" /\ pc = "loop"
          /\ rows \in Lists(GoogleRows \cup {ShortRow}, MaxRows)
       \/ script = "fix_long_numbers" /\ pc = "read"
          /\ rows \in Lists(CleanedRows, MaxRows)
    /\ simple_schema = FALSE
    /\ kept = <<>> /\ i = 0 /\ out_rows = <<>> /\ seen = {}
    /\ NoAsk /\ NoSend

idle_vars == <<ADD_MX_MOBILE_ONE, call_vars, contact_vars, script, rows, ask_vars, send_vars>>

\* clean_duplicates_on_contacts.main: rows read, simple_schema = "Phone" in rows[0]
CdcStart ==
    /\ script = "clean_duplicates_on_contacts" /\ pc = "start"
    /\ IF rows = <<>>
       THEN pc' = "IndexError" /\ UNCHANGED simple_schema
       ELSE pc' = "loop" /\ simple_schema' = ("Phone" \in DOMAIN rows[1])
    /\ UNCHANGED <<idle_vars, kept, i, out_rows, seen>>

\* the OrderedDict appended for one accepted contact
cdc_out_row(name, phone) ==
    [Name |-> name, Phone_E164 |-> phone, Country |-> country_from_e164(phone),
     Channel |-> WhatsApp, OptIn |-> <<>>]

\* a plausible slip: the "if phone in seen: continue" test is left out
CdcRow_without_seen_test ==
    /\ script = "clean_duplicates_on_contacts" /\ pc = "loop" /\ i < Len(rows)
    /\ LET row == rows[i + 1]
           name == full_name(row)
           phone == IF simple_schema THEN pick_best_from_simple_row(row)
                    ELSE pick_best_from_google_row(row)
       IN  IF phone = None \/ phone = <<>> THEN UNCHANGED <<seen, out_rows>>
           ELSE /\ seen' = seen \cup {phone}
                /\ out_rows' = Append(out_rows, cdc_out_row(name, phone))
    /\ i' = i + 1
    /\ UNCHANGED <<idle_vars, simple_schema, kept, pc>>

\* one pass of "for row in rows"
CdcRow ==
    /\ script = "clean_duplicates_on_contacts" /\ pc = "loop" /\ i < Len(rows)
    /\ LET row == rows[i + 1]
           name == full_name(row)
           phone == IF simple_schema THEN pick_best_from_simple_row(row)
                    ELSE pick_best_from_google_row(row)
       IN  IF phone = None \/ phone = <<>> THEN UNCHANGED <<seen, out_rows>>
           ELSE IF phone \in seen THEN UNCHANGED <<seen, out_rows>>
           ELSE /\ seen' = seen \cup {phone}
                /\ out_rows' = Append(out_rows, cdc_out_row(name, phone))
    /\ i' = i + 1
    /\ UNCHANGED <<idle_vars, simple_schema, kept, pc>>

\* the loop is over: the output file is written, then a line that starts with a
\* check mark is printed, which raises when the encoding of sys.stdout lacks it
CdcWrite ==
    /\ script = "clean_duplicates_on_contacts" /\ pc = "loop" /\ i = Len(rows)
    /\ \E encoding \in Encodings :
          pc' = IF \A k \in 1..Len(WroteLine) : can_encode_char(encoding, WroteLine[k])
                THEN "done" ELSE "UnicodeEncodeError"
    /\ UNCHANGED <<idle_vars, simple_schema, kept, i, out_rows, seen>>

gc_out_row(name, phone, country) ==
    [Name |-> name, Phone |-> phone, Country |-> or_empty(country),
     Channel |-> WhatsApp, OptIn |-> <<>>]

\* clean_google_contacts.main: one pass of "for row in rows"
GcRow ==
    /\ script = "clean_google_contacts" /\ pc = "loop" /\ i < Len(rows)
    /\ LET row == rows[i + 1]
           name == gc_full_name(row)
           best == pick_best_number(row)
       IN  IF best = AttributeError
           THEN pc' = "AttributeError" /\ UNCHANGED <<seen, out_rows, i>>
           ELSE /\ pc' = pc
                /\ i' = i + 1
                /\ IF best[1] = None \/ best[1] = <<>> THEN UNCHANGED <<seen, out_rows>>
                   ELSE IF best[1] \in seen THEN UNCHANGED <<seen, out_rows>>
                   ELSE /\ seen' = seen \cup {best[1]}
                        /\ out_rows' = Append(out_rows, gc_out_row(name, best[1], best[2]))
    /\ UNCHANGED <<idle_vars, simple_schema, kept>>

GcWrite ==
    /\ script = "clean_google_contacts" /\ pc = "loop" /\ i = Len(rows)
    /\ pc' = "done"
    /\ UNCHANGED <<idle_vars, simple_schema, kept, i, out_rows, seen>>

\* fix_long_numbers: one pass of "for row in r" (rows without a phone are left out);
\* row.get("Phone_E164", "").strip() raises on the None of a short line
FixRead ==
    /\ script = "fix_long_numbers" /\ pc = "read" /\ i < Len(rows)
    /\ LET row == rows[i + 1]
           ph == strip(get(row, "Phone_E164"))
           fixed == pick_window(ph)
       IN  IF get(row, "Phone_E164") = None
           THEN pc' = "AttributeError" /\ UNCHANGED <<kept, i>>
           ELSE /\ pc' = pc
                /\ i' = i + 1
                /\ IF ph = <<>> THEN UNCHANGED kept
                   ELSE kept' = Append(kept, ("Phone_E164" :> fixed)
                                             @@ ("Country" :> country_of(fixed)) @@ row)
    /\ UNCHANGED <<idle_vars, simple_schema, out_rows, seen>>

FixReadDone ==
    /\ script = "fix_long_numbers" /\ pc = "read" /\ i = Len(rows)
    /\ pc' = "dedupe" /\ i' = 0
    /\ UNCHANGED <<idle_vars, simple_schema, kept, out_rows, seen>>

\* one pass of "for row in rows" over the kept rows; seen and out_rows are the keys
\* and the values of the OrderedDict unique
FixDedupe ==
    /\ script = "fix_long_numbers" /\ pc = "dedupe" /\ i < Len(kept)
    /\ LET row == kept[i + 1]
           key == row["Phone_E164"]
       IN  IF key \notin seen
           THEN seen' = seen \cup {key} /\ out_rows' = Append(out_rows, row)
           ELSE UNCHANGED <<seen, out_rows>>
    /\ i' = i + 1
    /\ UNCHANGED <<idle_vars, simple_schema, kept, pc>>

\* fieldnames of the csv.DictWriter
FixFieldnames == {"Name", "Phone_E164", "Country", "Channel", "OptIn"}

\* the output file is written: writerows raises ValueError at the first row that has
\* a key outside fieldnames; then the line that starts with a check mark is printed,
\* which raises when the encoding of sys.stdout lacks it
FixWrite ==
    /\ script = "fix_long_numbers" /\ pc = "dedupe" /\ i = Len(kept)
    /\ \E encoding \in Encodings :
          pc' = IF \E k \in 1..Len(out_rows) : ~(DOMAIN out_rows[k] \subseteq FixFieldnames)
                THEN "ValueError"
                ELSE IF \A k \in 1..Len(WroteLine) : can_encode_char(encoding, WroteLine[k])
                THEN "done" ELSE "UnicodeEncodeError"
    /\ UNCHANGED <<idle_vars, simple_schema, kept, i, out_rows, seen>>

Next ==
    \/ CdcStart
    \/ CdcRow
    \/ CdcWrite
    \/ GcRow
    \/ GcWrite
    \/ FixRead
    \/ FixReadDone
    \/ FixDedupe
    \/ FixWrite

Spec == Init /\ [][Next]_vars

----------------------------------------------------------------------------
(* 2025_Andree_Fundraiser_MartinHS_Band.py: ask_openai *)

MaxRetries == 2

PRIMARY_MODEL == "gpt-5"
FALLBACK_MODEL == "gpt-5-mini"

\* what one client.responses.create call can do: give a text that is not empty once
\* stripped, give no text (output_text None, empty or blank), or raise
Outcomes == {"text", "no text", "RateLimitError", "APITimeoutError", "APIError", "Exception"}

\* what 'raise APIError("Empty response text")' raises: the APIError, or the TypeError
\* of a constructor that requires more arguments than the message
EmptyTextErrors == {"APIError", "TypeError"}

\* everything of the model that ask_openai leaves alone
not_ask_vars ==
    <<ADD_MX_MOBILE_ONE, call_vars, contact_vars, script, simple_schema, rows, kept, i,
      out_rows, seen, send_vars>>

InitAsk ==
    /\ ADD_MX_MOBILE_ONE = FALSE
    /\ NoCall /\ NoContact /\ NoSend
    /\ script = "ask_openai" /\ pc = "start"
    /\ simple_schema = FALSE /\ rows = <<>> /\ kept = <<>>
    /\ i = 0 /\ out_rows = <<>> /\ seen = {}
    /\ max_retries \in 0..MaxRetries
    /\ models_left = <<>> /\ attempt = 0 /\ last_err = None /\ backoff = <<>>
    /\ calls = <<>> /\ result = Unset

\* models_to_try = [PRIMARY_MODEL, FALLBACK_MODEL]; last_err = None; the outer loop
\* takes its first model and the inner loop its first attempt
AskStart ==
    /\ script = "ask_openai" /\ pc = "start"
    /\ models_left' = <<PRIMARY_MODEL, FALLBACK_MODEL>>
    /\ attempt' = 1
    /\ last_err' = None
    /\ pc' = "attempt"
    /\ UNCHANGED <<not_ask_vars, max_retries, backoff, calls, result>>

\* a plausible slip: "continue" in the handlers of the other errors too, so that every
\* failure is retried on the same model
AskAttempt_retrying_every_error ==
    /\ script = "ask_openai" /\ pc = "attempt"
    /\ models_left # <<>> /\ attempt <= max_retries
    /\ \E outcome \in Outcomes :
          /\ calls' = Append(calls, [model |-> Head(models_left), outcome |-> outcome])
          /\ IF outcome = "text"
             THEN /\ result' = <<"return", "text">>
                  /\ pc' = "returned"
                  /\ UNCHANGED <<models_left, attempt, last_err>>
             ELSE /\ \E e \in (IF outcome = "no text" THEN EmptyTextErrors ELSE {outcome}) :
                        last_err' = <<e>>
                  /\ attempt' = attempt + 1
                  /\ UNCHANGED <<models_left, result, pc>>
    /\ UNCHANGED <<not_ask_vars, max_retries, backoff>>

RECURSIVE power(_, _)
power(b, n) == IF n = 0 THEN 1 ELSE b * power(b, n - 1)

\* min(8.0, 1.5 ** attempt) as a fraction
backoff_for(n) ==
    IF power(3, n) > 8 * power(2, n) THEN <<8, 1>> ELSE <<power(3, n), power(2, n)>>

\* one pass of "for attempt in range(1, max_retries + 1)" up to the end of the try
\* statement or, after a transient error, up to time.sleep(backoff): the call, and
\* what the try statement makes of its outcome
AskAttempt ==
    /\ script = "ask_openai" /\ pc = "attempt"
    /\ models_left # <<>> /\ attempt <= max_retries
    /\ \E outcome \in Outcomes :
          /\ calls' = Append(calls, [model |-> Head(models_left), outcome |-> outcome])
          /\ IF outcome = "text"
             THEN \* return text
                  /\ result' = <<"return", "text">>
                  /\ pc' = "returned"
                  /\ UNCHANGED <<models_left, attempt, last_err, backoff>>
             ELSE IF outcome \in {"RateLimitError", "APITimeoutError"}
             THEN \* backoff = min(8.0, 1.5 ** attempt); time.sleep(backoff) begins
                  /\ backoff' = backoff_for(attempt)
                  /\ pc' = "sleep"
                  /\ UNCHANGED <<models_left, attempt, last_err, result>>
             ELSE \* last_err = e, break: the outer loop takes the next model
                  /\ \E e \in (IF outcome = "no text" THEN EmptyTextErrors ELSE {outcome}) :
                        last_err' = <<e>>
                  /\ models_left' = Tail(models_left)
                  /\ attempt' = 1
                  /\ UNCHANGED <<result, pc, backoff>>
    /\ UNCHANGED <<not_ask_vars, max_retries>>

\* time.sleep(backoff) is over: last_err = e, continue; e is the error of the call
\* just made
AskSleep ==
    /\ script = "ask_openai" /\ pc = "sleep"
    /\ last_err' = <<calls[Len(calls)].outcome>>
    /\ attempt' = attempt + 1
    /\ pc' = "attempt"
    /\ UNCHANGED <<not_ask_vars, max_retries, models_left, backoff, calls, result>>

\* the inner loop has run out of attempts: the outer loop takes the next model
AskNextModel ==
    /\ script = "ask_openai" /\ pc = "attempt"
    /\ models_left # <<>> /\ attempt > max_retries
    /\ models_left' = Tail(models_left)
    /\ attempt' = 1
    /\ UNCHANGED <<not_ask_vars, max_retries, last_err, backoff, calls, result, pc>>

\* the outer loop is over: raise last_err or RuntimeError(...)
AskRaise ==
    /\ script = "ask_openai" /\ pc = "attempt"
    /\ models_left = <<>>
    /\ result' = <<"raise">> \o (IF last_err # None THEN last_err ELSE <<"RuntimeError">>)
    /\ pc' = "raised"
    /\ UNCHANGED <<not_ask_vars, max_retries, models_left, attempt, last_err, backoff, calls>>

NextAsk ==
    \/ AskStart
    \/ AskAttempt
    \/ AskSleep
    \/ AskNextModel
    \/ AskRaise

\* the interpreter keeps running the function: every call returns or raises, every
\* sleep ends
SpecAsk == InitAsk /\ [][NextAsk]_vars /\ WF_vars(NextAsk)

----------------------------------------------------------------------------
(* send_messages.py: the bulk sender *)

MaxSendRows == 2
MaxStartFrom == 3
MaxLimit == 2

upper_char(ch) ==
    IF \E j \in 1..Len(LowerChars) : LowerChars[j] = ch
    THEN <<UpperChars[index_of(ch, LowerChars)]>>
    ELSE IF ch = "ß" THEN <<"S", "S">>
    ELSE IF ch = "ÿ" THEN <<"U+0178">>
    ELSE IF ch = "µ" THEN <<"U+039C">>
    ELSE <<ch>>

\* s.upper(): the lower-case letters a-z and U+00E0 .. U+00FE go to their upper-case
\* letter, the sharp s to SS, y with diaeresis to U+0178 and the micro sign to U+039C
upper(s) == concat([k \in 1..Len(s) |-> upper_char(s[k])])

\* Python's `a or b` on values that are strings or None
py_or(a, b) == IF a # None /\ a # <<>> THEN a ELSE b

\* row.get(key): None for a column the file does not have
row_get(row, key) == IF key \in DOMAIN row THEN row[key] ELSE None

\* the environment the sender is started in: both From numbers set, a Content
\* Template SID for Spanish only, no media URL
DEFAULT_SMS_FROM == <<"+", "1", "9">>
WA_FROM == <<"w", "h", "a", "t", "s", "a", "p", "p", ":", "+", "1", "4">>
CONTENT_TEMPLATE_SID_ES == <<"H", "X", "1">>
CONTENT_TEMPLATE_SID_EN == <<>>

first_name(row) ==
    strip(py_or(row_get(row, "GreetingName"),
          py_or(row_get(row, "FirstName"),
          py_or(row_get(row, "Name"), <<"f", "r", "i", "e", "n", "d">>))))

detect_language(row) ==
    LET lang_raw == lower(strip(py_or(row_get(row, "Language"),
                                py_or(row_get(row, "language"), <<>>))))
        country == upper(strip(py_or(row_get(row, "Country"), <<>>)))
    IN  IF lang_raw \in {<<"e", "s">>, <<"e", "s", "-", "m", "x">>,
                         <<"s", "p", "a", "n", "i", "s", "h">>,
                         <<"e", "s", "p", "a", "ñ", "o", "l">>}
        THEN "ES"
        ELSE IF lang_raw \in {<<"e", "n">>, <<"e", "n", "-", "u", "s">>,
                              <<"e", "n", "g", "l", "i", "s", "h">>}
        THEN "EN"
        ELSE IF country = <<"M", "X">> THEN "ES" ELSE "EN"

to_whatsapp_addr(e164) == <<"w", "h", "a", "t", "s", "a", "p", "p", ":">> \o e164

\* rows of a contacts file with the header Name,Phone_E164,Phone,Country,Language;
\* csv.DictReader fills the columns a short line lacks with None
SendRowMX ==
    [Name |-> Ann, Phone_E164 |-> <<"+", "5", "2">>, Phone |-> <<>>,
     Country |-> <<"m", "x">>, Language |-> <<>>]
SendRowUS ==
    [Name |-> Bob, Phone_E164 |-> <<>>, Phone |-> <<"2", "1", "4">>,
     Country |-> <<"U", "S">>, Language |-> <<"E", "S", "P", "A", "Ñ", "O", "L">>]
SendRowShort ==
    [Name |-> <<" ", "A", "l">>, Phone_E164 |-> <<"+", "1">>, Phone |-> None,
     Country |-> None, Language |-> None]
SendRowNoPhone ==
    [Name |-> <<"J", "o", "s", "é">>, Phone_E164 |-> <<>>, Phone |-> <<>>,
     Country |-> <<"U", "S">>, Language |-> <<>>]
SendRows == {SendRowMX, SendRowUS, SendRowShort, SendRowNoPhone}

Modes == {"WA", "WA_TEMPLATE", "SMS"}

\* the parsed command line; --limit is the empty set when the option is absent
\* (None) and {n} when it is given as n
\* values of --delay, a float written as on the command line: zero, the default
\* DELAY_SECONDS, and one time.sleep does not take
Delays == {"0", "0.7", "inf"}

\* args.delay > 0
delay_positive(delay) == delay \in {"0.7", "inf"}

\* time.sleep(delay) raises OverflowError (timestamp out of range for platform
\* time_t), as it does from about 9.3e9 seconds on
sleep_raises(delay) == delay = "inf"

ArgsPool ==
    [mode : Modes,
     start_from : (0 - 1)..MaxStartFrom,
     limit : {{}} \cup {{n} : n \in (0 - 1)..MaxLimit},
     dry_run : BOOLEAN,
     delay : Delays,
     wa_lang : {"AUTO", "ES"}]

not_send_vars ==
    <<ADD_MX_MOBILE_ONE, call_vars, contact_vars, script, simple_schema, rows, kept, i,
      out_rows, seen, ask_vars>>

InitSend ==
    /\ ADD_MX_MOBILE_ONE = FALSE
    /\ NoCall /\ NoContact /\ NoAsk
    /\ script = "send_messages" /\ pc = "start"
    /\ simple_schema = FALSE /\ kept = <<>>
    /\ i = 0 /\ out_rows = <<>> /\ seen = {}
    /\ rows \in Lists(SendRows, MaxSendRows)
    /\ args \in ArgsPool
    /\ stdout_encoding \in Encodings
    /\ start = 0 /\ end = 0 /\ idx = 0 /\ sent = 0
    /\ created = <<>> /\ sent_log = <<>> /\ error_log = <<>> /\ printed = <<>>

min(a, b) == IF a < b THEN a ELSE b
max(a, b) == IF a > b THEN a ELSE b

\* rows are read, the range [start, end) is computed and announced; idx is the
\* next value range(start, end) yields
SendStart ==
    /\ script = "send_messages" /\ pc = "start"
    /\ LET total == Len(rows)
           first == max(args.start_from, 0)
           last == IF args.limit = {} THEN total
                   ELSE min(total, first + (CHOOSE n \in args.limit : TRUE))
       IN  /\ start' = first
           /\ end' = last
           /\ idx' = first
           /\ printed' = Append(printed, [stream |-> "stdout", tag |-> "Loaded",
                                          total |-> total, start |-> first, end |-> last])
    /\ sent' = 0
    /\ pc' = "loop"
    /\ UNCHANGED <<not_send_vars, args, stdout_encoding, created, sent_log, error_log>>

\* phone = row.get("Phone_E164") or row.get("Phone")
phone_of(row) == py_or(row_get(row, "Phone_E164"), row_get(row, "Phone"))

has_phone(row) == phone_of(row) # None /\ phone_of(row) # <<>>

\* the characters outside ASCII of the message texts at their defaults: SMS_BODY has
\* two U+2019 and the trumpet U+1F3BA, the WhatsApp bodies the waving hand U+1F44B
\* (the Spanish one also an inverted question mark and an o with acute)
template_chars(template) ==
    IF template = "SMS_BODY" THEN <<"U+2019", "U+2019", "U+1F3BA">>
    ELSE IF template = "WA_TEMPLATE_BODY_ES" THEN <<"U+1F44B", "ó", "¿">>
    ELSE IF template = "WA_TEMPLATE_BODY_EN" THEN <<"U+1F44B", "U+2019">>
    ELSE <<>>

\* str.isprintable() of one character: repr() escapes the others
isprintable(ch) ==
    ~(ord(ch) < 32 \/ (ord(ch) >= 127 /\ ord(ch) <= 160) \/ ord(ch) = 173)

\* the characters of repr(s) that are not ASCII
repr_chars(s) == SelectSeq(s, isprintable)

\* print(line) on sys.stdout does not raise UnicodeEncodeError
can_print(line) == \A k \in 1..Len(line) : can_encode_char(stdout_encoding, line[k])

\* what the try block prepares for one row under the given arguments: the tag of the
\* line it prints, the address, the sender, the text (a template and the name put
\* into it), the language written to the log, and the characters the dry-run line
\* shows besides ASCII text
prepare(a, row) ==
    LET name == first_name(row)
        phone == phone_of(row)
        detected == detect_language(row)
        lang == IF a.wa_lang # "AUTO" THEN a.wa_lang ELSE detected
        to_wa == to_whatsapp_addr(phone)
        content_sid == IF lang = "ES" THEN CONTENT_TEMPLATE_SID_ES
                       ELSE CONTENT_TEMPLATE_SID_EN
        body_template == IF lang = "ES" THEN "WA_TEMPLATE_BODY_ES"
                         ELSE "WA_TEMPLATE_BODY_EN"
    IN  IF a.mode = "SMS"
        THEN [tag |-> "SMS", to |-> phone, from_ |-> DEFAULT_SMS_FROM,
              text |-> [template |-> "SMS_BODY", name |-> name], lang |-> "",
              shown |-> phone \o template_chars("SMS_BODY") \o name]
        ELSE IF a.mode = "WA"
        THEN [tag |-> "WA TEXT", to |-> to_wa, from_ |-> WA_FROM,
              text |-> [template |-> body_template, name |-> name], lang |-> lang,
              shown |-> to_wa \o template_chars(body_template) \o name]
        ELSE IF content_sid # <<>>
        THEN [tag |-> "WA TEMPLATE via Content", to |-> to_wa, from_ |-> WA_FROM,
              text |-> [template |-> "content_sid", name |-> name], lang |-> lang,
              shown |-> to_wa \o content_sid \o repr_chars(name)]
        ELSE [tag |-> "WA TEMPLATE (BODY)", to |-> to_wa, from_ |-> WA_FROM,
              text |-> [template |-> body_template, name |-> name], lang |-> lang,
              shown |-> to_wa \o template_chars(body_template) \o name]

\* str(row.get('Name'))
name_shown(row) ==
    IF row_get(row, "Name") = None THEN <<"N", "o", "n", "e">> ELSE row_get(row, "Name")

\* the row has no phone: a SKIP line and on to the next row; the print is outside the
\* try statement, so a name the encoding of stdout lacks ends the run
SendSkip ==
    /\ script = "send_messages" /\ pc = "loop" /\ idx < end
    /\ ~has_phone(rows[idx + 1])
    /\ IF can_print(name_shown(rows[idx + 1]))
       THEN /\ printed' = Append(printed, [stream |-> "stdout", tag |-> "SKIP", idx |-> idx,
                                          name |-> row_get(rows[idx + 1], "Name")])
            /\ idx' = idx + 1
            /\ pc' = pc
       ELSE /\ pc' = "UnicodeEncodeError"
            /\ UNCHANGED <<printed, idx>>
    /\ UNCHANGED <<not_send_vars, args, start, end, sent, stdout_encoding, created,
                   sent_log, error_log>>

\* the line the except clause prints on stderr (which never fails to encode)
error_line(row) ==
    [stream |-> "stderr", tag |-> "ERROR", idx |-> idx, to |-> phone_of(row), sent |-> FALSE]

\* the row the except clause appends to the error log; error is the class of the
\* exception, "UnicodeEncodeError" for a print and "Exception" for any other
error_row(row, error) ==
    [name |-> get(row, "Name"), phone |-> phone_of(row), mode |-> args.mode, error |-> error]

\* the except clause reached before the row was counted: a line on stderr and a row
\* in the error log; the row is not counted and the loop goes on
except_clause(row, error) ==
    /\ printed' = Append(printed, error_line(row))
    /\ error_log' = Append(error_log, error_row(row, error))
    /\ idx' = idx + 1
    /\ UNCHANGED <<sent, sent_log>>

\* the pause that ends the try block, after sent += 1: time.sleep(args.delay) is
\* called unless the row is the last of the range or the delay is not positive, and
\* it raises for a delay it does not take
sleep_fails == idx < end - 1 /\ delay_positive(args.delay) /\ sleep_raises(args.delay)

\* what a row that went through the try block leaves on the terminal and in the
\* error log: its line, and when the pause raised, what the except clause adds
after_pause(line, row) ==
    IF sleep_fails
    THEN /\ printed' = printed \o <<line, error_line(row)>>
         /\ error_log' = Append(error_log, error_row(row, "Exception"))
    ELSE /\ printed' = Append(printed, line)
         /\ UNCHANGED error_log

\* --dry-run: the line is printed, nothing is sent or logged, the row is counted,
\* then the pause; the print is inside the try statement, so a line the encoding of
\* stdout lacks a character of goes to the except clause
SendDryRun ==
    /\ script = "send_messages" /\ pc = "loop" /\ idx < end
    /\ has_phone(rows[idx + 1])
    /\ args.dry_run
    /\ LET row == rows[idx + 1]
           m == prepare(args, row)
       IN  IF can_print(m.shown)
           THEN /\ after_pause([stream |-> "stdout", tag |-> m.tag,
                                 idx |-> idx, to |-> m.to, sent |-> FALSE], row)
                /\ sent' = sent + 1
                /\ idx' = idx + 1
                /\ UNCHANGED sent_log
           ELSE except_clause(row, "UnicodeEncodeError")
    /\ UNCHANGED <<not_send_vars, pc, args, start, end, stdout_encoding, created>>

\* client.messages.create returns: the line is printed, the sent log gets its
\* entry, the row is counted, then the pause; a line that cannot be printed goes to
\* the except clause after the message was sent
SendDeliver ==
    /\ script = "send_messages" /\ pc = "loop" /\ idx < end
    /\ has_phone(rows[idx + 1])
    /\ ~args.dry_run
    /\ LET row == rows[idx + 1]
           m == prepare(args, row)
       IN  /\ created' = Append(created, [to |-> m.to, from_ |-> m.from_, text |-> m.text])
           /\ IF can_print(m.to)
              THEN /\ after_pause([stream |-> "stdout", tag |-> m.tag,
                                    idx |-> idx, to |-> m.to, sent |-> TRUE], row)
                   /\ sent_log' = Append(sent_log,
                                         [name |-> get(row, "Name"), phone |-> phone_of(row),
                                          mode |-> args.mode, text |-> m.text, lang |-> m.lang])
                   /\ sent' = sent + 1
                   /\ idx' = idx + 1
              ELSE except_clause(row, "UnicodeEncodeError")
    /\ UNCHANGED <<not_send_vars, pc, args, start, end, stdout_encoding>>

\* client.messages.create raises: the except clause
SendFail ==
    /\ script = "send_messages" /\ pc = "loop" /\ idx < end
    /\ has_phone(rows[idx + 1])
    /\ ~args.dry_run
    /\ LET row == rows[idx + 1]
           m == prepare(args, row)
       IN  /\ created' = Append(created, [to |-> m.to, from_ |-> m.from_, text |-> m.text])
           /\ except_clause(row, "Exception")
    /\ UNCHANGED <<not_send_vars, pc, args, start, end, stdout_encoding>>

\* the range is exhausted: the summary line, and the dry-run notice, whose dash
\* U+2014 ends the run in an error when stdout cannot encode it
SendDone ==
    /\ script = "send_messages" /\ pc = "loop" /\ ~(idx < end)
    /\ printed' = printed
                  \o <<[stream |-> "stdout", tag |-> "Done",
                        attempted |-> end - start, sent |-> sent]>>
                  \o (IF args.dry_run /\ can_print(<<"U+2014">>)
                      THEN <<[stream |-> "stdout", tag |-> "Dry run only"]>>
                      ELSE <<>>)
    /\ pc' = IF args.dry_run /\ ~can_print(<<"U+2014">>) THEN "UnicodeEncodeError" ELSE "done"
    /\ UNCHANGED <<not_send_vars, args, start, end, idx, sent, stdout_encoding, created,
                   sent_log, error_log>>

NextSend ==
    \/ SendStart
    \/ SendSkip
    \/ SendDryRun
    \/ SendDeliver
    \/ SendFail
    \/ SendDone

SpecSend == InitSend /\ [][NextSend]_vars

----------------------------------------------------------------------------
(* Properties *)

\* the decimal digits of a field, in order
decimal_digits(s) == SelectSeq(s, re_digit)

\* '+' followed by at least 8 and at most 15 decimal digits and nothing else
IsE164(x) ==
    /\ Len(x) >= 9 /\ Len(x) <= 16
    /\ x[1] = "+"
    /\ \A k \in 2..Len(x) : re_digit(x[k])

\* '+1' followed by exactly 10 digits
IsPlusOneTen(x) == Len(x) = 12 /\ x[1] = "+" /\ x[2] = "1" /\ digits_at(x, 3, 10)

\* the input rows the de-duplication loop has consumed, the phone each one selected
\* (None when the row is dropped) and the output row built from that row alone
DedupeInput ==
    IF script = "fix_long_numbers" THEN (IF pc = "read" THEN <<>> ELSE SubSeq(kept, 1, i))
    ELSE IF pc = "start" THEN <<>> ELSE SubSeq(rows, 1, i)

SelectedPhone(row) ==
    IF script = "clean_duplicates_on_contacts"
    THEN (IF "Phone" \in DOMAIN rows[1] THEN pick_best_from_simple_row(row)
          ELSE pick_best_from_google_row(row))
    ELSE IF script = "clean_google_contacts" THEN pick_best_number(row)[1]
    ELSE row["Phone_E164"]

BuiltRow(row) ==
    IF script = "clean_duplicates_on_contacts"
    THEN cdc_out_row(full_name(row), SelectedPhone(row))
    ELSE IF script = "clean_google_contacts"
    THEN gc_out_row(gc_full_name(row), pick_best_number(row)[1], pick_best_number(row)[2])
    ELSE row

PhoneOf(out) == IF script = "clean_google_contacts" THEN out["Phone"] ELSE out["Phone_E164"]

\* index of the earliest consumed input row that selected phone p
FirstRowWith(p) ==
    CHOOSE j \in 1..Len(DedupeInput) :
        /\ SelectedPhone(DedupeInput[j]) = p
        /\ \A m \in 1..(j - 1) : SelectedPhone(DedupeInput[m]) # p

\* C1: at every point of the de-duplication loops of the three scripts (and so when
\* they end) the output rows (a) are in the order of the input rows they came from,
\* (b) hold each phone at most once, (c) are, phone by phone, exactly the row built
\* from the earliest input row that selected the phone, and every selected phone is
\* there.
C1_FirstOccurrenceKept ==
    pc \in {"loop", "dedupe", "done", "UnicodeEncodeError"} =>
        /\ \A k, m \in 1..Len(out_rows) : k # m => PhoneOf(out_rows[k]) # PhoneOf(out_rows[m])
        /\ \A k \in 1..Len(out_rows) :
              /\ \E j \in 1..Len(DedupeInput) : SelectedPhone(DedupeInput[j]) = PhoneOf(out_rows[k])
              /\ out_rows[k] = BuiltRow(DedupeInput[FirstRowWith(PhoneOf(out_rows[k]))])
        /\ \A k, m \in 1..Len(out_rows) :
              k < m => FirstRowWith(PhoneOf(out_rows[k])) < FirstRowWith(PhoneOf(out_rows[m]))
        /\ \A j \in 1..Len(DedupeInput) :
              SelectedPhone(DedupeInput[j]) \notin {None, <<>>}
                  => \E k \in 1..Len(out_rows) : PhoneOf(out_rows[k]) = SelectedPhone(DedupeInput[j])

\* a finished run in which a later row with another name selected a phone already
\* emitted, between two rows that were kept
C1_Witness ==
    /\ pc = "done" /\ script = "clean_duplicates_on_contacts"
    /\ Len(rows) = 3 /\ Len(out_rows) = 2
    /\ SelectedPhone(rows[1]) = SelectedPhone(rows[2])
    /\ full_name(rows[1]) # full_name(rows[2])
    /\ out_rows[1]["Name"] = full_name(rows[1])

\* C2: whatever normalize_phone returns as a number, whatever extract_phone_candidates
\* lists and whatever a selector picks is '+' followed by 8 to 15 digits.
C2_NormalizedShape ==
    /\ call = "normalize_phone" /\ ret # None => IsE164(ret)
    /\ call = "gc_normalize_phone" /\ ret[1] # None => IsE164(ret[1])
    /\ call = "extract_phone_candidates" => \A k \in 1..Len(ret) : IsE164(ret[k])
    /\ call \in {"pick_best_from_simple_row", "pick_best_from_google_row"} /\ ret # None
          => IsE164(ret)
    /\ call = "pick_best_number" /\ ret[1] # None => IsE164(ret[1])

\* phone column n of the contact, as the selectors read it
FieldValue(n) == strip(or_empty(get(contact, PHONE_COLS[n])))
FieldLabel(n) == or_empty(get(contact, LABEL_COLS[n]))

\* the number column n yields for the selector that was called (None if it yields none)
FieldNumber(n) ==
    IF call = "pick_best_number" THEN gc_normalize_phone(FieldValue(n))[1]
    ELSE IF extract_phone_candidates(FieldValue(n)) = <<>> THEN None
    ELSE extract_phone_candidates(FieldValue(n))[1]

Yields(n) == FieldValue(n) # <<>> /\ FieldNumber(n) # None

PickedNumber == IF call = "pick_best_number" THEN picked[1] ELSE picked

\* the label names a mobile line: compared without case, it contains "mobile",
\* "cell", "móvil" or "movil"
IsMobileLabel(label) ==
    \/ contains(lower(label), <<"m", "o", "b", "i", "l", "e">>)
    \/ contains(lower(label), <<"c", "e", "l", "l">>)
    \/ contains(lower(label), <<"m", "ó", "v", "i", "l">>)
    \/ contains(lower(label), <<"m", "o", "v", "i", "l">>)

\* C3: a contact with a valid field labelled Home and one valid field labelled
\* Mobile is given the Mobile field's number by both selectors, whichever column
\* comes first.
C3_MobilePrecedence ==
    call # "" =>
        \A h, m \in 1..6 :
            ( /\ FieldLabel(h) = Home /\ Yields(h)
              /\ FieldLabel(m) = Mobile /\ Yields(m)
              /\ \A o \in 1..6 : IsMobileLabel(FieldLabel(o)) /\ Yields(o) => o = m )
            => PickedNumber = FieldNumber(m)

\* the Home column precedes the Mobile column, their numbers differ, Mobile is picked
C3_Witness ==
    /\ call = "pick_best_number"
    /\ \E h, m \in 1..6 :
          /\ h < m
          /\ FieldLabel(h) = Home /\ Yields(h)
          /\ FieldLabel(m) = Mobile /\ Yields(m)
          /\ FieldNumber(h) # FieldNumber(m)
          /\ picked[1] = FieldNumber(m)

\* C4: without a valid Mobile-labelled field both selectors return the number of
\* the first column that yields one; with several valid Mobile-labelled fields
\* they return the number of the first of those.
C4_FieldOrderDecides ==
    call # "" =>
        LET mobiles == {n \in 1..6 : IsMobileLabel(FieldLabel(n)) /\ Yields(n)}
            valid == {n \in 1..6 : Yields(n)}
            first(S) == CHOOSE n \in S : \A m \in S : n <= m
        IN  /\ mobiles = {} /\ valid # {} => PickedNumber = FieldNumber(first(valid))
            /\ mobiles # {} => PickedNumber = FieldNumber(first(mobiles))

\* text is '+1', ten digits, and ten more digits, nothing else
IsGluedPair(x) == Len(x) = 22 /\ x[1] = "+" /\ x[2] = "1" /\ digits_at(x, 3, 20)

\* C5: for an explicit '+1' number glued to a bare 10-digit number,
\* extract_phone_candidates returns two distinct candidates, each '+1' and 10 digits.
C5_GluedPairRecovered ==
    call = "extract_phone_candidates" /\ IsGluedPair(text) =>
        /\ Len(ret) = 2
        /\ ret[1] # ret[2]
        /\ \A k \in 1..Len(ret) : IsPlusOneTen(ret[k])

\* C6: for a field holding two valid numbers with a comma between them, the
\* candidates include the normalization of each number and start with that of the
\* first.
C6_SeparatedNumbers ==
    call = "extract_phone_candidates" =>
        \A k \in 1..Len(text) :
            LET left == SubSeq(text, 1, k - 1)
                right == SubSeq(text, k + 1, Len(text))
            IN  ( /\ text[k] = "," /\ count(text, ",") = 1
                  /\ normalize_phone(left) # None /\ normalize_phone(right) # None )
                => /\ member(normalize_phone(left), ret)
                   /\ member(normalize_phone(right), ret)
                   /\ ret[1] = normalize_phone(left)

\* C7: normalizing a number a normalizer returned gives that number back.
C7_NormalizeIdempotent ==
    again # Unset =>
        /\ call = "normalize_phone" => again = ret
        /\ call = "gc_normalize_phone" => again[1] = ret[1]

\* C8: with the disambiguator disabled, a field that is '+' and 8 to 15 digits is
\* the first candidate of the extractor and the number both selectors pick.
C8_NormalizedPassThrough ==
    ~ADD_MX_MOBILE_ONE /\ IsE164(text) =>
        /\ call = "extract_phone_candidates" => ret # <<>> /\ ret[1] = text
        /\ call \in {"pick_best_from_simple_row", "pick_best_from_google_row"} => ret = text

\* the field has no leading '+' and exactly n digits
BareDigits(n) == ~startswith(strip(text), <<"+">>) /\ Len(decimal_digits(text)) = n

\* what the claims C9 and C10 ask of the call that was made: the number is e164 and,
\* where the call gives a country, the country is US
GivesUS(e164) ==
    /\ call = "normalize_phone" => ret = e164
    /\ call = "gc_normalize_phone" => ret = <<e164, US>>
    /\ call \in {"pick_best_from_simple_row", "pick_best_from_google_row"}
          => ret = e164 /\ country_from_e164(ret) = US
    /\ call = "pick_best_number" => ret = <<e164, US>>

\* C9: ten-digit bare default. Every field without a leading '+' that holds exactly
\* 10 digits d, whatever surrounds them, is normalized to '+1' d by both normalizers
\* and selected as '+1' d, country US.
C9_TenDigitsDefaultUS_AsStated ==
    call # "" /\ BareDigits(10) => GivesUS(<<"+", "1">> \o decimal_digits(text))

\* the field is taken by clean_google_contacts for an international-prefix form
HasIntlPrefix ==
    \/ startswith(strip(text), <<"0", "0">>)
    \/ startswith(decimal_digits(text), <<"0", "1", "1">>)

\* the field holds a character that str.isdigit() accepts and that is no decimal
\* digit (a superscript two, three or one)
HasOtherDigit == only_digits(text) # decimal_digits(text)

\* where the ten-digit rule is reached: a field with exactly 10 digits d and no
\* superscript digit gives '+1' d, country US, in clean_duplicates_on_contacts, and
\* in clean_google_contacts when the field neither starts with '00' nor has digits
\* that start with '011'; the other fields are the ones C9 fails on.
C9_TenDigitsDefaultUS ==
    /\ call \in {"normalize_phone", "pick_best_from_simple_row", "pick_best_from_google_row"}
       /\ BareDigits(10) /\ ~HasOtherDigit
          => GivesUS(<<"+", "1">> \o decimal_digits(text))
    /\ call \in {"gc_normalize_phone", "pick_best_number"}
       /\ BareDigits(10) /\ ~HasIntlPrefix /\ ~HasOtherDigit
          => GivesUS(<<"+", "1">> \o decimal_digits(text))

\* ten digits wrapped in punctuation went through clean_google_contacts' selector
C9_Witness ==
    /\ call = "pick_best_number"
    /\ BareDigits(10) /\ ~HasIntlPrefix
    /\ Len(text) > 10
    /\ ret = << <<"+", "1">> \o decimal_digits(text), US >>

\* C10: every field without a leading '+' that holds exactly 11 digits, the first
\* of them '1', is normalized to '+' and those 11 digits by both normalizers.
C10_ElevenDigitsUS ==
    BareDigits(11) /\ startswith(decimal_digits(text), <<"1">>) =>
        /\ call = "normalize_phone" => ret = <<"+">> \o decimal_digits(text)
        /\ call = "gc_normalize_phone" => ret = << <<"+">> \o decimal_digits(text), US >>

\* eleven digits starting with '1', with other characters around them, were normalized
C10_Witness ==
    /\ call = "gc_normalize_phone"
    /\ BareDigits(11) /\ startswith(decimal_digits(text), <<"1">>)
    /\ Len(text) > 11
    /\ ret[1] = <<"+">> \o decimal_digits(text)

\* the field is '52' and 10 local digits not starting with '1', with or without
\* spaces and nothing else
IsBareMexico ==
    /\ \A k \in 1..Len(text) : re_digit(text[k]) \/ text[k] = " "
    /\ Len(decimal_digits(text)) = 12
    /\ startswith(decimal_digits(text), <<"5", "2">>)
    /\ decimal_digits(text)[3] # "1"

\* C11: a contact whose only phone field is '52' and 10 local digits L is selected
\* as '+52' L (country MX) when ADD_MX_MOBILE_ONE is disabled and as '+521' L when
\* it is enabled, by the selectors of both cleaning scripts.
C11_MexicoEndToEnd ==
    IsBareMexico =>
        LET L == SliceFrom(decimal_digits(text), 2)
            e164 == IF ADD_MX_MOBILE_ONE THEN <<"+", "5", "2", "1">> \o L
                    ELSE <<"+", "5", "2">> \o L
        IN  /\ call \in {"pick_best_from_simple_row", "pick_best_from_google_row"}
                  => ret = e164 /\ country_from_e164(ret) = MX
            /\ call = "pick_best_number" => ret = <<e164, MX>>

\* the country the prefix of a number stands for
CountryOfPrefix(e164) ==
    IF startswith(e164, <<"+", "1">>) THEN US
    ELSE IF startswith(e164, <<"+", "5", "2">>) THEN MX
    ELSE INTL

\* C12: the country clean_google_contacts gives with a number (normalize_phone's pair,
\* and the pair pick_best_number hands to main for the output row) is the one the
\* number's prefix stands for: US for '+1', MX for '+52', INTL otherwise.
C12_CountryFromPrefix ==
    call \in {"gc_normalize_phone", "pick_best_number"} /\ ret[1] # None
        => ret[2] = CountryOfPrefix(ret[1])

\* C13: a phone field with fewer than 8 digits (the empty field and "N/A" among them)
\* gives no normalized number and no candidate, and a contact whose only phone field
\* it is gets no number from any selector, so that no output row is written for it.
C13_UnresolvableDropped ==
    Len(decimal_digits(text)) < 8 =>
        /\ call = "normalize_phone" => ret = None
        /\ call = "gc_normalize_phone" => ret = <<None, None>>
        /\ call = "extract_phone_candidates" => ret = <<>>
        /\ call \in {"pick_best_from_simple_row", "pick_best_from_google_row"} => ret = None
        /\ call = "pick_best_number" => ret = <<None, None>>

\* C14: a run of a cleaning script never ends in an error, whatever the batch (the
\* batch of zero rows included), and when it has written its output it has visited
\* every row once.
C14_BatchCompletes ==
    script \in {"clean_duplicates_on_contacts", "clean_google_contacts"} =>
        /\ pc \notin {"IndexError", "AttributeError", "UnicodeEncodeError"}
        /\ pc = "done" => i = Len(rows)

\* the row with every missing cell (None) replaced by the empty string
blank(row) == [c \in DOMAIN row |-> or_empty(row[c])]

\* C15: no selector raises on a row with missing cells, and every row the loop has
\* consumed was given the number it would be given with the missing cells empty.
C15_MissingFieldsTolerated ==
    /\ pc # "AttributeError"
    /\ pc \in {"loop", "done"} /\ script # "fix_long_numbers"
          => \A j \in 1..i : SelectedPhone(rows[j]) = SelectedPhone(blank(rows[j]))

\* the field has no leading '+', at least 8 digits, and its digits match neither the
\* US rule (10 digits, or 11 starting with '1') nor the Mexico rule (12 or 13 digits
\* starting with '52')
IsGenericInternational ==
    LET d == decimal_digits(text)
    IN  /\ ~startswith(strip(text), <<"+">>)
        /\ Len(d) >= 8
        /\ Len(d) # 10
        /\ ~(Len(d) = 11 /\ startswith(d, <<"1">>))
        /\ ~(Len(d) \in {12, 13} /\ startswith(d, <<"5", "2">>))

\* C16: for such a field both normalizers return '+' and the first min(n, 15) digits
\* of the field.
C16_GenericInternationalTruncated ==
    IsGenericInternational =>
        LET e164 == <<"+">> \o Slice(decimal_digits(text), 0, 15)
        IN  /\ call = "normalize_phone" => ret = e164
            /\ call = "gc_normalize_phone" => ret[1] = e164

\* C17: for a field that starts with '+', both normalizers return no number when the
\* field has fewer than 8 digits, and otherwise '+' and the field's digits, or, only
\* when ADD_MX_MOBILE_ONE is enabled and the digits are '52' (not '521') and 10 more,
\* '+521' and those 10.
C17_PlusPrefixedPath ==
    startswith(text, <<"+">>) =>
        LET d == decimal_digits(text)
            insert == /\ ADD_MX_MOBILE_ONE
                      /\ startswith(d, <<"5", "2">>) /\ ~startswith(d, <<"5", "2", "1">>)
                      /\ Len(d) = 12
            allowed(e) == \/ e = <<"+">> \o d
                          \/ insert /\ e = <<"+", "5", "2", "1">> \o SliceFrom(d, 2)
        IN  /\ call = "normalize_phone" =>
                IF Len(d) < 8 THEN ret = None ELSE allowed(ret)
            /\ call = "gc_normalize_phone" =>
                IF Len(d) < 8 THEN ret = <<None, None>> ELSE allowed(ret[1])

\* number of digits of text that directly follow position k
RECURSIVE digit_run(_)
digit_run(k) ==
    IF k < Len(text) /\ re_digit(text[k + 1]) THEN 1 + digit_run(k + 1) ELSE 0

\* C18: every '+' of the field that is directly followed by a run of 8 to 15 digits
\* is, with that run, one of the candidates extract_phone_candidates returns.
C18_ExplicitTokensRecovered ==
    call = "extract_phone_candidates" =>
        \A k \in 1..Len(text) :
            text[k] = "+" /\ digit_run(k) >= 8 /\ digit_run(k) <= 15
                => member(SubSeq(text, k, k + digit_run(k)), ret)

\* C19: a contact whose only valid field with a mobile-naming label ("Mobile",
\* "MOBILE", "Movil", ...) comes after a valid field labelled Home is given the
\* number of the mobile-named field by both selectors.
C19_MobileKeywords ==
    call # "" =>
        \A h, m \in 1..6 :
            ( /\ h < m
              /\ FieldLabel(h) = Home /\ Yields(h)
              /\ IsMobileLabel(FieldLabel(m)) /\ Yields(m)
              /\ \A o \in 1..6 : IsMobileLabel(FieldLabel(o)) /\ Yields(o) => o = m )
            => PickedNumber = FieldNumber(m)

\* the candidate is an explicit token of the field: a match of '+1' and 10 digits or
\* of '+52' or '+521' and 10 digits
IsExplicitToken(c) ==
    \E k \in 1..Len(text) :
        match_us_mx(text, k) > 0 /\ c = SubSeq(text, k, k + match_us_mx(text, k) - 1)

\* the candidate is one of the sliding windows over the digits of the field
IsSlidingWindow(c) == member(c, sliding_candidates_from_digits(only_digits(text)))

\* the leftmost explicit token of the field
FirstExplicitToken ==
    LET k == CHOOSE k \in 1..Len(text) :
                 /\ match_us_mx(text, k) > 0
                 /\ \A m \in 1..(k - 1) : match_us_mx(text, m) = 0
    IN  SubSeq(text, k, k + match_us_mx(text, k) - 1)

\* C20: in the list extract_phone_candidates returns, the explicit tokens come before
\* every other candidate, a candidate that is neither an explicit token nor a sliding
\* window (the whole-field normalization) comes last, and when the field holds an
\* explicit token the first candidate is the leftmost one.
C20_CandidatePriority ==
    call = "extract_phone_candidates" =>
        /\ \A a, b \in 1..Len(ret) : a < b /\ IsExplicitToken(ret[b]) => IsExplicitToken(ret[a])
        /\ \A a \in 1..Len(ret) :
              ~IsExplicitToken(ret[a]) /\ ~IsSlidingWindow(ret[a]) => a = Len(ret)
        /\ (\E k \in 1..Len(text) : match_us_mx(text, k) > 0)
              => ret # <<>> /\ ret[1] = FirstExplicitToken

\* a field whose explicit token follows other digits: the token is the first
\* candidate, sliding windows follow it, the whole-field normalization is last
C20_Witness ==
    /\ call = "extract_phone_candidates"
    /\ Len(ret) >= 3
    /\ text[1] # "+"
    /\ IsExplicitToken(ret[1])
    /\ ~IsExplicitToken(ret[2]) /\ IsSlidingWindow(ret[2])
    /\ ~IsExplicitToken(ret[Len(ret)]) /\ ~IsSlidingWindow(ret[Len(ret)])
    /\ ret[Len(ret)] = normalize_phone(text)

\* the least element of a non-empty set of numbers, 0 for the empty set
Least(S) == IF S = {} THEN 0 ELSE CHOOSE k \in S : \A m \in S : k <= m

\* C21: the lists extract_phone_candidates and sliding_candidates_from_digits return
\* hold no string twice, and their candidates stand in the order in which each was
\* first produced: explicit tokens by their first position in the text, sliding
\* windows by the offset of their first window (at one offset, by growing width).
C21_CandidatesUniqueInOrder ==
    call \in {"extract_phone_candidates", "sliding_candidates_from_digits"} =>
        \* tokens: the explicit token at each position of the text (<<>> where there is
        \* none); windows: the candidates of the windows at each offset of the digits
        \A tokens \in {[k \in 1..Len(text) |->
                          IF call = "extract_phone_candidates" /\ match_us_mx(text, k) > 0
                          THEN SubSeq(text, k, k + match_us_mx(text, k) - 1) ELSE <<>>]} :
        \A windows \in {[k \in 1..Len(only_digits(text)) |->
                           sliding_windows_at(only_digits(text), k - 1)]} :
        \A token \in {[a \in 1..Len(ret) |->
                         Least({k \in DOMAIN tokens : tokens[k] = ret[a]})]} :
        \A first \in {[a \in 1..Len(ret) |->
                         Least({k \in DOMAIN windows : member(ret[a], windows[k])})]} :
        \A window \in {[a \in 1..Len(ret) |->
                          IF token[a] > 0 \/ first[a] = 0 THEN 0
                          ELSE 100 * first[a] + Len(ret[a])]} :
            /\ \A a, b \in 1..Len(ret) : a # b => ret[a] # ret[b]
            /\ \A a, b \in 1..Len(ret) :
                  a < b /\ token[a] > 0 /\ token[b] > 0 => token[a] < token[b]
            /\ \A a, b \in 1..Len(ret) :
                  a < b /\ window[a] > 0 /\ window[b] > 0 => window[a] < window[b]
            /\ call = "sliding_candidates_from_digits" => \A a \in 1..Len(ret) : window[a] > 0

\* a field with two '+' whose explicit token is found again in the split pieces: the
\* token is listed once, at the front
C21_Witness ==
    /\ call = "extract_phone_candidates"
    /\ count(text, "+") > 1
    /\ ret # <<>>
    /\ IsExplicitToken(ret[1])
    /\ \A a \in 2..Len(ret) : ret[a] # ret[1]

\* what the calls ask_openai has made so far, and the way it ended if it has ended,
\* must look like
AskProtocol ==
    LET n == Len(calls)
        failed(k) == calls[k].outcome # "text"
        transient(k) == calls[k].outcome \in {"RateLimitError", "APITimeoutError"}
        on(m) == {k \in 1..n : calls[k].model = m}
    IN  \* primary attempts, then fallback attempts
        /\ \A k \in 1..n : calls[k].model \in {PRIMARY_MODEL, FALLBACK_MODEL}
        /\ \A a, b \in 1..n : a < b /\ calls[b].model = PRIMARY_MODEL => calls[a].model = PRIMARY_MODEL
        \* the fallback is called only after the primary was tried and every call on it failed
        /\ on(FALLBACK_MODEL) # {} => on(PRIMARY_MODEL) # {} /\ \A a \in on(PRIMARY_MODEL) : failed(a)
        \* a model is called again only after a transient error, at most max_retries times
        /\ \A k \in 1..(n - 1) : calls[k + 1].model = calls[k].model => transient(k)
        /\ Cardinality(on(PRIMARY_MODEL)) <= max_retries
        /\ Cardinality(on(FALLBACK_MODEL)) <= max_retries
        /\ n <= 2 * max_retries
        \* nothing is called after a success
        /\ \A k \in 1..(n - 1) : failed(k)
        \* the text of the successful call is returned, or the last error is raised
        /\ pc \in {"start", "attempt", "sleep"} => result = Unset
        /\ pc = "returned" => n > 0 /\ ~failed(n) /\ result = <<"return", "text">>
        /\ pc = "raised" =>
              /\ result[1] = "raise"
              /\ IF n = 0 THEN result[2] = "RuntimeError"
                 ELSE /\ failed(n)
                      /\ IF calls[n].outcome = "no text" THEN result[2] \in EmptyTextErrors
                         ELSE result[2] = calls[n].outcome

\* C22: at every point of a run of ask_openai the calls made so far follow the
\* protocol (primary attempts then fallback attempts, the fallback only after every
\* primary call failed, a retry only after a RateLimitError or APITimeoutError, at
\* most max_retries calls per model and 2*max_retries in all), and the run ends,
\* returning the text of the first successful call or raising the last error seen
\* (RuntimeError if no call was made).
C22_AskOpenAIProtocol ==
    /\ [](script = "ask_openai" => AskProtocol)
    /\ <>(pc \in {"returned", "raised"})

\* the primary model was retried after a rate limit, failed for good, and the
\* fallback model gave the text that was returned
C22_Witness ==
    /\ pc = "returned"
    /\ Len(calls) = 3
    /\ calls[1] = [model |-> PRIMARY_MODEL, outcome |-> "RateLimitError"]
    /\ calls[2] = [model |-> PRIMARY_MODEL, outcome |-> "APIError"]
    /\ calls[3] = [model |-> FALLBACK_MODEL, outcome |-> "text"]
    /\ result = <<"return", "text">>

\* the lines the loop printed for the rows it visited, in the order printed
RowLines == SelectSeq(printed, LAMBDA l : l.tag \notin {"Loaded", "Done", "Dry run only"})

\* C23: dry run sends nothing. While send_messages runs with --dry-run, whatever the
\* mode and the rows, no messages.create call has been made and nothing has been
\* appended to the sent log (nor to the error log); each row gone through has left
\* exactly one printed line on standard output and nothing else.
C23_DryRunSendsNothing ==
    (script = "send_messages" /\ args.dry_run) =>
        /\ created = <<>>
        /\ sent_log = <<>>
        /\ error_log = <<>>
        /\ pc \in {"loop", "done"} =>
            /\ Len(RowLines) = idx - start
            /\ \A k \in 1..Len(RowLines) :
                /\ RowLines[k].idx = start + k - 1
                /\ RowLines[k].stream = "stdout"
                /\ RowLines[k].tag = "SKIP" \/ ~RowLines[k].sent

\* a finished dry run in template mode over two rows with a phone, one going through
\* the Content Template and one through the approved body
C23_Witness ==
    /\ script = "send_messages" /\ pc = "done"
    /\ args.dry_run /\ args.mode = "WA_TEMPLATE"
    /\ sent = 2
    /\ \E k \in 1..Len(printed) : printed[k].tag = "WA TEMPLATE via Content"
    /\ \E k \in 1..Len(printed) : printed[k].tag = "WA TEMPLATE (BODY)"
    /\ created = <<>> /\ sent_log = <<>>

\* the part of C23 that does not depend on the encoding of standard output: a dry run
\* makes no messages.create call and appends nothing to the sent log
C23_NoCallNoSentLog ==
    (script = "send_messages" /\ args.dry_run) => (created = <<>> /\ sent_log = <<>>)

\* a dry run whose row line could not be encoded for standard output: the row went
\* through the except clause and left a row in the error log
C23_DryRunErrorLogged ==
    /\ script = "send_messages" /\ pc = "done" /\ args.dry_run
    /\ stdout_encoding = "cp1252" /\ Len(error_log) = 1 /\ sent = 0

\* the lines the loop printed for the row of index j
lines_of(j) == {k \in 1..Len(RowLines) : RowLines[k].idx = j}

\* the rows the loop skipped so far
skipped == Cardinality({k \in 1..Len(RowLines) : RowLines[k].tag = "SKIP"})

\* the lines of the rows are in the order of the rows, and all are lines of rows of
\* the range that the loop has reached
InRangeInOrder ==
    /\ \A k \in 1..Len(RowLines) :
        /\ start <= RowLines[k].idx /\ RowLines[k].idx < idx
        /\ RowLines[k].idx < end
    /\ \A k, m \in 1..Len(RowLines) : k < m => RowLines[k].idx <= RowLines[m].idx

\* C24: loop accounting and error isolation. For every --start-from and --limit the
\* rows gone through are start, start+1, ... in ascending order, each once and each
\* below end; every one of them is either skipped, counted in sent, or recorded in the
\* error log, and only one of these; when the run is over every index of [start, end)
\* has been gone through, whatever failed on the way; and the summary's Attempted
\* figure is the number of rows gone through, with Sent not above it.
C24_LoopAccounting ==
    (script = "send_messages" /\ pc \in {"loop", "done"}) =>
        /\ InRangeInOrder
        /\ \A j \in start..(idx - 1) : Cardinality(lines_of(j)) = 1
        /\ skipped + sent + Len(error_log) = idx - start
        /\ \A k \in 1..Len(RowLines) :
               RowLines[k].tag = "ERROR" => RowLines[k].stream = "stderr"
        /\ pc = "done" =>
            /\ \A j \in start..(end - 1) : lines_of(j) # {}
            /\ \E k \in 1..Len(printed) :
                /\ printed[k].tag = "Done"
                /\ printed[k].attempted = idx - start
                /\ printed[k].sent <= printed[k].attempted

\* what the loop itself does, the summary line's figures left out: the rows of the
\* range are gone through in order, none left out and none stopping the loop, and
\* each is skipped, counted or logged; one of the three only, unless the pause after
\* a counted row raises, which sends the row to the error log as well
C24_LoopItself ==
    (script = "send_messages" /\ pc \in {"loop", "done"}) =>
        /\ InRangeInOrder
        /\ \A j \in start..(idx - 1) : lines_of(j) # {}
        /\ skipped + sent + Len(error_log) >= idx - start
        /\ ~(delay_positive(args.delay) /\ sleep_raises(args.delay)) =>
            /\ \A j \in start..(idx - 1) : Cardinality(lines_of(j)) = 1
            /\ skipped + sent + Len(error_log) = idx - start
        /\ pc = "done" => \A j \in start..(end - 1) : lines_of(j) # {}

\* the summary line's figures when the range is not empty backwards
C24_SummaryWhenStartWithinRows ==
    (script = "send_messages" /\ pc = "done" /\ start <= end) =>
        \E k \in 1..Len(printed) :
            /\ printed[k].tag = "Done"
            /\ printed[k].attempted = idx - start
            /\ printed[k].sent <= printed[k].attempted

\* a row that was sent and counted, and then written to the error log because the
\* pause after it raised
C24_CountedAndLogged ==
    /\ script = "send_messages" /\ pc = "done" /\ ~args.dry_run
    /\ sent = 2 /\ Len(sent_log) = 2 /\ Len(error_log) = 1
    /\ error_log[1].phone = sent_log[1].phone

====
